---- MODULE Spec2Model ----
(***************************************************************************)
(* A model of the two GRID flat-file generators, lol_basic_parser.py and   *)
(* val_basic_parser.py: the REST client's retry loop (API_Messenger.get),  *)
(* the control flow of main, and the two game_factory flatteners.          *)
(*                                                                         *)
(* Each part of the program has its own specification over the shared      *)
(* variables; the variables a specification does not use keep their        *)
(* initial value:                                                          *)
(*   SpecGet          one call of API_Messenger.get                        *)
(*   SpecMain         main of either title, get / post / game_factory      *)
(*                    reduced to their possible results                    *)
(*   SpecLolTimeline  the LoL game_factory, timelines drawn widely         *)
(*   SpecLolStats     the LoL game_factory, participant counters drawn     *)
(*                    widely                                               *)
(*   SpecValPlayers   the Valorant game loop of main with game_factory,    *)
(*                    player lists and team totals drawn widely            *)
(***************************************************************************)
EXTENDS Integers, Sequences, FiniteSets, TLC

VARIABLES
    title,                \* which script runs: "lol" or "val"
    \* ---- API_Messenger.get
    getpc,                \* "idle", "loop", "returned", "raised"
    try_count,            \* the local try_count
    requests,             \* number of requests.get calls issued by this call
    sleeps,               \* the durations passed to time.sleep, in order
    outcome,              \* what the latest requests.get produced
    result,               \* what the call returned or raised
    \* ---- main
    mainpc,
    series_idx,           \* position in SERIES_IDS_TO_PULL (1-based)
    games_total,          \* number of games of the current series
    game_idx,             \* position in the current series' games (1-based)
    files,                \* results of the api.get calls of the current unit
    output_array,
    csv,                  \* the rows written to the CSV file, or NotWritten
    main_error,           \* the exception that left main, or NoError
    history,              \* per series: what happened to it (for the properties)
    \* ---- game_factory, both titles
    gfpc,
    cleaned_game_data,
    gf_error,
    player_idx,           \* position in the participants / players list
    \* ---- LoL game_factory
    stats_file,
    timeline_file,
    frame_idx,
    first_blood_found,
    first_blood_victim,
    team_totals,
    \* ---- Valorant game_factory and the game loop of main
    series_metadata,
    series_data,          \* the games of the Riot file handed to game_factory so far
    raw_game_data,
    this_game_metadata,
    team_side_refs,
    team_idx,
    round_idx,
    attackers,            \* the local attackers of the round loop
    round_results,        \* raw_game_data["roundResults"], as far as it was read
    team_preaggregated_stats,
    player_preaggregated_stats,
    player_count_found,
    team_rows_added_map,
    \* ---- split_team_tag_and_player_nickname
    splitpc,              \* "idle", "called", "returned"
    summoner_name,        \* the argument, a sequence of characters
    team_tag_found,
    team_tag,
    player_name

getVars == <<getpc, try_count, requests, sleeps, outcome, result>>
mainVars == <<mainpc, series_idx, games_total, game_idx, files, csv, main_error, history>>
gfVars == <<gfpc, cleaned_game_data, gf_error, player_idx>>
lolVars == <<stats_file, timeline_file, frame_idx, first_blood_found,
             first_blood_victim, team_totals>>
valVars == <<series_metadata, series_data, raw_game_data, this_game_metadata,
             team_side_refs, team_idx, round_idx, attackers, round_results,
             team_preaggregated_stats,
             player_preaggregated_stats, player_count_found, team_rows_added_map>>
splitVars == <<splitpc, summoner_name, team_tag_found, team_tag, player_name>>
vars == <<title, getVars, mainVars, output_array, gfVars, lolVars, valVars, splitVars>>

None == "None"

(***************************************************************************)
(* API_Messenger.get (identical in both scripts: lol_basic_parser.py       *)
(* 122-161, val_basic_parser.py 64-112).                                   *)
(***************************************************************************)

\* Bound: the largest number of seconds a Retry-After header carries.
MaxRetryAfter == 2

\* `if try_count >= 5`
MaxTries == 5

\* `time.sleep(1)` of the else branch
FixedDelay == 1

\* Values of response.headers.get("Retry-After"): absent (None), an integer
\* number of seconds, or the HTTP-date form the header also allows.
NoHeader == [form |-> "absent", seconds |-> 0]
HttpDate == [form |-> "http-date", seconds |-> 0]
Seconds(n) == [form |-> "seconds", seconds |-> n]
RetryAfterValues == {NoHeader, HttpDate} \cup {Seconds(n) : n \in 0..MaxRetryAfter}

\* Status codes the server may answer with.
SentinelStatuses_dropped404 == {401, 403}

\* The statuses get returns to its caller: the 401, 403 and 404 branches.
SentinelStatuses == {401, 403, 404}
OtherStatuses == {201, 400, 500, 503}

NoOutcome == [kind |-> "none", status |-> 0, retry_after |-> NoHeader]
TimeoutOutcome == [kind |-> "timeout", status |-> 0, retry_after |-> NoHeader]
\* any requests exception other than Timeout (ConnectionError, ...)
RequestErrorOutcome == [kind |-> "request_error", status |-> 0, retry_after |-> NoHeader]
Response(status, ra) == [kind |-> "response", status |-> status, retry_after |-> ra]

NoResult == [kind |-> "none", code |-> 0, exc |-> None]
Content == [kind |-> "content", code |-> 200, exc |-> None]
StatusCode(code) == [kind |-> "status", code |-> code, exc |-> None]
Raised(exc) == [kind |-> "raise", code |-> 0, exc |-> exc]
TooManyTimes == "Exception: API request failed too many times"

InitGet ==
    /\ getpc = "idle"
    /\ try_count = 0
    /\ requests = 0
    /\ sleeps = <<>>
    /\ outcome = NoOutcome
    /\ result = NoResult

\* The call: `try_count = 0`, then the loop.
GetCall ==
    /\ getpc = "idle"
    /\ getpc' = "loop"
    /\ try_count' = 0
    /\ UNCHANGED <<requests, sleeps, outcome, result>>

\* `if try_count >= 5: raise Exception(...)`
GetTooManyTries ==
    /\ getpc = "loop"
    /\ try_count >= MaxTries
    /\ getpc' = "raised"
    /\ result' = Raised(TooManyTimes)
    /\ UNCHANGED <<try_count, requests, sleeps, outcome>>

\* One requests.get of the loop body, answered by o.
SendRequest(o) ==
    /\ getpc = "loop"
    /\ try_count < MaxTries
    /\ requests' = requests + 1
    /\ outcome' = o

\* `except requests.exceptions.Timeout: try_count += 1; continue`
GetTimeout ==
    /\ SendRequest(TimeoutOutcome)
    /\ try_count' = try_count + 1
    /\ UNCHANGED <<getpc, sleeps, result>>

\* Any other exception of requests.get is not caught and leaves the call.
GetRequestError ==
    /\ SendRequest(RequestErrorOutcome)
    /\ getpc' = "raised"
    /\ result' = Raised("requests.exceptions.RequestException")
    /\ UNCHANGED <<try_count, sleeps>>

\* `if response.status_code == 200: return response.content`
GetOk ==
    /\ \E ra \in RetryAfterValues : SendRequest(Response(200, ra))
    /\ getpc' = "returned"
    /\ result' = Content
    /\ UNCHANGED <<try_count, sleeps>>

\* `elif response.status_code == 429:
\*      time.sleep(int(response.headers.get("Retry-After"))); try_count += 1`
\* int(None) raises TypeError and int of a date string ValueError, before the
\* sleep and before the increment.
GetRateLimited ==
    \E ra \in RetryAfterValues :
        /\ SendRequest(Response(429, ra))
        /\ IF ra = NoHeader
             THEN /\ getpc' = "raised"
                  /\ result' = Raised("TypeError")
                  /\ UNCHANGED <<try_count, sleeps>>
           ELSE IF ra = HttpDate
             THEN /\ getpc' = "raised"
                  /\ result' = Raised("ValueError")
                  /\ UNCHANGED <<try_count, sleeps>>
           ELSE /\ sleeps' = Append(sleeps, ra.seconds)
                /\ try_count' = try_count + 1
                /\ UNCHANGED <<getpc, result>>

\* `elif response.status_code == 401 / 403 / 404: return response.status_code`
GetSentinel ==
    \E code \in SentinelStatuses, ra \in RetryAfterValues :
        /\ SendRequest(Response(code, ra))
        /\ getpc' = "returned"
        /\ result' = StatusCode(code)
        /\ UNCHANGED <<try_count, sleeps>>

\* `else: time.sleep(1); try_count += 1; continue`
GetOtherStatus ==
    \E code \in (OtherStatuses \cup {401, 403, 404}) \ SentinelStatuses,
       ra \in RetryAfterValues :
        /\ SendRequest(Response(code, ra))
        /\ sleeps' = Append(sleeps, FixedDelay)
        /\ try_count' = try_count + 1
        /\ UNCHANGED <<getpc, result>>

GetFrame == UNCHANGED <<title, splitVars, mainVars, output_array, gfVars, lolVars, valVars>>

NextGet ==
    \/ GetCall /\ GetFrame
    \/ GetTooManyTries /\ GetFrame
    \/ GetTimeout /\ GetFrame
    \/ GetRequestError /\ GetFrame
    \/ GetOk /\ GetFrame
    \/ GetRateLimited /\ GetFrame
    \/ GetSentinel /\ GetFrame
    \/ GetOtherStatus /\ GetFrame

(***************************************************************************)
(* main (lol_basic_parser.py 383-477, val_basic_parser.py 420-551).        *)
(* api.post, api.get and game_factory appear by their possible results.    *)
(***************************************************************************)

\* Bound: len(SERIES_IDS_TO_PULL).
NumSeries == 2

\* Bound: the largest number of games a series holds.
MaxGames == 2

\* Bound: the number of rows one game_factory call returns in this part.
RowsPerGame == 2

NotWritten == <<"not written">>
NoError == [exc |-> None, at |-> None]
Error(exc, at) == [exc |-> exc, at |-> at]

\* What a call of api.get can hand back to main (see the get actions above).
GetResults ==
    {Content} \cup {StatusCode(c) : c \in SentinelStatuses} \cup {Raised(TooManyTimes)}

GameRows(s, g) == [i \in 1..RowsPerGame |-> [series |-> s, game |-> g, row |-> i]]

InitMain ==
    /\ mainpc = "for_series"
    /\ series_idx = 0
    /\ games_total = 0
    /\ game_idx = 0
    /\ files = <<>>
    /\ csv = NotWritten
    /\ main_error = NoError
    /\ history = [s \in 1..NumSeries |-> "pending"]

\* `for series_id in SERIES_IDS_TO_PULL:` takes the next series.
MainNextSeries ==
    /\ mainpc = "for_series"
    /\ series_idx < NumSeries
    /\ series_idx' = series_idx + 1
    /\ mainpc' = "post"
    /\ history' = [history EXCEPT ![series_idx + 1] = "started"]
    /\ UNCHANGED <<games_total, game_idx, files, csv, main_error, output_array>>

\* The series loop is exhausted.
MainSeriesDone ==
    /\ mainpc = "for_series"
    /\ series_idx >= NumSeries
    /\ mainpc' = "write"
    /\ UNCHANGED <<series_idx, games_total, game_idx, files, csv, main_error,
                   history, output_array>>

\* The metadata try block raises: `except Exception: ...; continue`.
MainPostFails ==
    /\ mainpc = "post"
    /\ mainpc' = "for_series"
    /\ history' = [history EXCEPT ![series_idx] = "post_failed"]
    /\ UNCHANGED <<series_idx, games_total, game_idx, files, csv, main_error,
                   output_array>>

\* The metadata try block succeeds.  LoL: the series-state query lists the
\* games.  Valorant: the games come from the two file downloads that follow.
MainPostOk ==
    /\ mainpc = "post"
    /\ game_idx' = 0
    /\ files' = <<>>
    /\ IF title = "lol"
         THEN /\ mainpc' = "for_game"
              /\ \E n \in 0..MaxGames : games_total' = n
         ELSE /\ mainpc' = "get_endstate"
              /\ games_total' = 0
    /\ UNCHANGED <<series_idx, csv, main_error, history, output_array>>

\* `for game in series_metadata["games"]:` / `for game_data in series_data:`
MainNextGame ==
    /\ mainpc = "for_game"
    /\ game_idx < games_total
    /\ game_idx' = game_idx + 1
    /\ files' = <<>>
    /\ mainpc' = IF title = "lol" THEN "get_files" ELSE "flatten"
    /\ UNCHANGED <<series_idx, games_total, csv, main_error, history, output_array>>

\* The game loop is exhausted: "Finished parsing ...", next series.
MainGamesDone ==
    /\ mainpc = "for_game"
    /\ game_idx >= games_total
    /\ mainpc' = "for_series"
    /\ history' = [history EXCEPT ![series_idx] = "finished"]
    /\ UNCHANGED <<series_idx, games_total, game_idx, files, csv, main_error,
                   output_array>>

\* LoL 439-441: stats_file, timeline_file, live_file = api.get(...), outside
\* any try block: an exception of api.get leaves main.
MainLolGet ==
    /\ mainpc = "get_files"
    /\ title = "lol"
    /\ \E r \in GetResults :
         IF r.kind = "raise"
           THEN /\ mainpc' = "crashed"
                /\ main_error' = Error(r.exc, "api.get")
                /\ UNCHANGED files
           ELSE /\ files' = Append(files, r)
                /\ mainpc' = IF Len(files) = 2 THEN "parse" ELSE "get_files"
                /\ UNCHANGED main_error
    /\ UNCHANGED <<series_idx, games_total, game_idx, csv, history, output_array>>

\* LoL 444-446: json.loads(stats_file), json.loads(timeline_file),
\* live_file.decode(...); a status code (an int) in place of the content
\* raises TypeError (json.loads) or AttributeError (decode).
MainLolParse ==
    /\ mainpc = "parse"
    /\ IF \E i \in 1..2 : files[i].kind = "status"
         THEN /\ mainpc' = "crashed"
              /\ main_error' = Error("TypeError", "json.loads")
       ELSE IF files[3].kind = "status"
         THEN /\ mainpc' = "crashed"
              /\ main_error' = Error("AttributeError", "decode")
       ELSE /\ mainpc' = "flatten"
            /\ UNCHANGED main_error
    /\ UNCHANGED <<series_idx, games_total, game_idx, files, csv, history,
                   output_array>>

\* Valorant 476-481: the GRID end-state download, whose exception is caught
\* (`continue`); json.loads of a status code raises TypeError outside the try.
\* The loop over the end-state games (483-490) catches its own exceptions.
MainValGetEndstate ==
    /\ mainpc = "get_endstate"
    /\ \E r \in GetResults :
         IF r.kind = "raise"
           THEN /\ mainpc' = "for_series"
                /\ history' = [history EXCEPT ![series_idx] = "get_failed"]
                /\ UNCHANGED main_error
         ELSE IF r.kind = "status"
           THEN /\ mainpc' = "crashed"
                /\ main_error' = Error("TypeError", "json.loads")
                /\ UNCHANGED history
         ELSE /\ mainpc' = "get_riot"
              /\ UNCHANGED <<main_error, history>>
    /\ UNCHANGED <<series_idx, games_total, game_idx, files, csv, output_array>>

\* Valorant 493-496: `response = api.get(series_id)` outside any try block,
\* then ZipFile(BytesIO(response)), which raises TypeError on a status code.
MainValGetRiot ==
    /\ mainpc = "get_riot"
    /\ \E r \in GetResults :
         IF r.kind = "raise"
           THEN /\ mainpc' = "crashed"
                /\ main_error' = Error(r.exc, "api.get")
                /\ UNCHANGED <<games_total, game_idx>>
         ELSE IF r.kind = "status"
           THEN /\ mainpc' = "crashed"
                /\ main_error' = Error("TypeError", "BytesIO")
                /\ UNCHANGED <<games_total, game_idx>>
         ELSE /\ mainpc' = "for_game"
              /\ game_idx' = 0
              /\ \E n \in 0..MaxGames : games_total' = n
              /\ UNCHANGED main_error
    /\ UNCHANGED <<series_idx, files, csv, history, output_array>>

\* A variant of MainFlattenReturns that puts the new rows in front.
MainFlattenReturns_prepending ==
    /\ mainpc = "flatten"
    /\ output_array' = GameRows(series_idx, game_idx) \o output_array
    /\ mainpc' = "for_game"
    /\ UNCHANGED <<series_idx, games_total, game_idx, files, csv, main_error, history>>

\* game_factory returns its rows: `output_array.extend(cleaned_game_data)`.
MainFlattenReturns ==
    /\ mainpc = "flatten"
    /\ output_array' = output_array \o GameRows(series_idx, game_idx)
    /\ mainpc' = "for_game"
    /\ UNCHANGED <<series_idx, games_total, game_idx, files, csv, main_error, history>>

\* game_factory raises; the call stands outside any try block.
MainFlattenRaises ==
    /\ mainpc = "flatten"
    /\ mainpc' = "crashed"
    /\ main_error' = Error("game_factory error", "game_factory")
    /\ UNCHANGED <<series_idx, games_total, game_idx, files, csv, history,
                   output_array>>

\* After the loop: the CSV file is opened and every row written.
MainWriteCsv ==
    /\ mainpc = "write"
    /\ csv' = output_array
    /\ mainpc' = "done"
    /\ UNCHANGED <<series_idx, games_total, game_idx, files, main_error, history,
                   output_array>>

MainFrame == UNCHANGED <<title, splitVars, getVars, gfVars, lolVars, valVars>>

NextMain ==
    \/ MainNextSeries /\ MainFrame
    \/ MainSeriesDone /\ MainFrame
    \/ MainPostFails /\ MainFrame
    \/ MainPostOk /\ MainFrame
    \/ MainNextGame /\ MainFrame
    \/ MainGamesDone /\ MainFrame
    \/ MainLolGet /\ MainFrame
    \/ MainLolParse /\ MainFrame
    \/ MainValGetEndstate /\ MainFrame
    \/ MainValGetRiot /\ MainFrame
    \/ MainFlattenReturns /\ MainFrame
    \/ MainFlattenRaises /\ MainFrame
    \/ MainWriteCsv /\ MainFrame

(***************************************************************************)
(* The Valorant game_factory (val_basic_parser.py 183-417) and the game    *)
(* loop of main that calls it (500-507).                                   *)
(*                                                                         *)
(* Names (gameName, team name) are modelled by their rank in string order, *)
(* the empty string by rank 0; "" in a numeric column of a team row by     *)
(* Blank.  Rows carry the columns the properties read.                     *)
(***************************************************************************)

\* `if player_count_found < 10`
MinPlayers == 10

\* Bound: the number of rounds of a game whose players are drawn widely.
FewRounds == 1

EmptyName == 0
Blank == -1

Sides == {"Blue", "Red"}

RECURSIVE SeqSum(_)
SeqSum(q) == IF q = <<>> THEN 0 ELSE Head(q) + SeqSum(Tail(q))

\* The concatenation of a sequence of sequences.
RECURSIVE Flatten(_)
Flatten(qq) == IF qq = <<>> THEN <<>> ELSE Head(qq) \o Flatten(Tail(qq))

\* ---- rounds (249-301)

\* 250-254: the attacking side of a round.
Attackers_no_overtime(round_number) == IF round_number < 13 THEN "Red" ELSE "Blue"

Attackers(round_number) ==
    IF round_number < 25
      THEN (IF round_number < 13 THEN "Red" ELSE "Blue")
      ELSE (IF round_number % 2 = 1 THEN "Red" ELSE "Blue")

ZeroSideStats ==
    [attackWins |-> 0, attackLosses |-> 0, defenseWins |-> 0, defenseLosses |-> 0]

ZeroPlayerStats ==
    [total_damage |-> 0, headshots |-> 0, bodyshots |-> 0, legshots |-> 0,
     first_kills |-> 0, first_deaths |-> 0]

\* 256-269: the four counters a round increments.
CountRound_attackers_only(tps, round_number, winningTeam) ==
    IF Attackers(round_number) = "Blue"
      THEN IF winningTeam = "Blue"
             THEN [tps EXCEPT !["Blue"].attackWins = @ + 1]
             ELSE [tps EXCEPT !["Blue"].attackLosses = @ + 1]
      ELSE IF winningTeam = "Red"
             THEN [tps EXCEPT !["Red"].attackWins = @ + 1]
             ELSE [tps EXCEPT !["Red"].attackLosses = @ + 1]

CountRound(tps, round_number, winningTeam) ==
    IF Attackers(round_number) = "Blue"
      THEN IF winningTeam = "Blue"
             THEN [tps EXCEPT !["Blue"].attackWins = @ + 1,
                              !["Red"].defenseLosses = @ + 1]
             ELSE [tps EXCEPT !["Blue"].attackLosses = @ + 1,
                              !["Red"].defenseWins = @ + 1]
      ELSE IF winningTeam = "Red"
             THEN [tps EXCEPT !["Red"].attackWins = @ + 1,
                              !["Blue"].defenseLosses = @ + 1]
             ELSE [tps EXCEPT !["Red"].attackLosses = @ + 1,
                              !["Blue"].defenseWins = @ + 1]

\* A variant of AddPlayerStats that starts the player's entry afresh each round.
AddPlayerStats_resetting(pps, player) ==
    LET known == [q \in DOMAIN pps \cup {player.puuid} |->
                     IF q \in DOMAIN pps /\ q # player.puuid THEN pps[q]
                     ELSE ZeroPlayerStats]
        col(f) == SeqSum([k \in 1..Len(player.damage) |-> player.damage[k][f]])
    IN  [known EXCEPT ![player.puuid] =
            [@ EXCEPT !.total_damage = @ + col("damage"),
                      !.headshots = @ + col("headshots"),
                      !.bodyshots = @ + col("bodyshots"),
                      !.legshots = @ + col("legshots")]]

\* 275-289: one entry of playerStats added to player_preaggregated_stats.
AddPlayerStats(pps, player) ==
    LET known == [q \in DOMAIN pps \cup {player.puuid} |->
                     IF q \in DOMAIN pps THEN pps[q] ELSE ZeroPlayerStats]
        col(f) == SeqSum([k \in 1..Len(player.damage) |-> player.damage[k][f]])
    IN  [known EXCEPT ![player.puuid] =
            [@ EXCEPT !.total_damage = @ + col("damage"),
                      !.headshots = @ + col("headshots"),
                      !.bodyshots = @ + col("bodyshots"),
                      !.legshots = @ + col("legshots")]]

RECURSIVE AddAllPlayerStats(_, _)
AddAllPlayerStats(pps, playerStats) ==
    IF playerStats = <<>> THEN pps
    ELSE AddAllPlayerStats(AddPlayerStats(pps, Head(playerStats)), Tail(playerStats))

\* 291-292: round_kill_events, in playerStats order then kill order.
RoundKillEvents(playerStats) ==
    Flatten([k \in 1..Len(playerStats) |-> playerStats[k].kills])

\* 295-298: sorted(..., key=timeSinceRoundStartMillis): a stable sort.
RECURSIVE InsertKill_ties_first(_, _)
InsertKill_ties_first(sorted, kill) ==
    IF sorted = <<>> THEN <<kill>>
    ELSE IF kill.timeSinceRoundStartMillis <= Head(sorted).timeSinceRoundStartMillis
      THEN <<kill>> \o sorted
      ELSE <<Head(sorted)>> \o InsertKill_ties_first(Tail(sorted), kill)

RECURSIVE InsertKill(_, _)
InsertKill(sorted, kill) ==
    IF sorted = <<>> THEN <<kill>>
    ELSE IF kill.timeSinceRoundStartMillis < Head(sorted).timeSinceRoundStartMillis
      THEN <<kill>> \o sorted
      ELSE <<Head(sorted)>> \o InsertKill(Tail(sorted), kill)

RECURSIVE SortKills(_)
SortKills(kills) ==
    IF kills = <<>> THEN <<>>
    ELSE InsertKill(SortKills(SubSeq(kills, 1, Len(kills) - 1)), kills[Len(kills)])

\* ---- rows (310-417)

\* 319-362: the player row.
ValPlayerRow(raw, meta, refs, tps, pps, player) ==
    LET team == meta[refs[player.teamId]]
    IN  [game_id |-> raw.matchId,
         player_name |-> player.gameName,
         team_id |-> team.id,
         team_name |-> team.name,
         win |-> IF team.winner THEN 1 ELSE 0,
         roundsWon |-> team.rounds_won,
         attackRoundsWon |-> tps[player.teamId].attackWins,
         attackRoundsLost |-> tps[player.teamId].attackLosses,
         defenseRoundsWon |-> tps[player.teamId].defenseWins,
         defenseRoundsLost |-> tps[player.teamId].defenseLosses,
         first_kills |-> pps[player.puuid].first_kills,
         first_deaths |-> pps[player.puuid].first_deaths]

\* 371-401: the team row built from the first player of a side.
ValTeamRow(raw, meta, refs, tps, player) ==
    LET team == meta[refs[player.teamId]]
    IN  [game_id |-> raw.matchId,
         player_name |-> EmptyName,
         team_id |-> team.id,
         team_name |-> team.name,
         win |-> IF team.winner THEN 1 ELSE 0,
         roundsWon |-> team.rounds_won,
         attackRoundsWon |-> tps[player.teamId].attackWins,
         attackRoundsLost |-> tps[player.teamId].attackLosses,
         defenseRoundsWon |-> tps[player.teamId].defenseWins,
         defenseRoundsLost |-> tps[player.teamId].defenseLosses,
         first_kills |-> Blank,
         first_deaths |-> Blank]

\* 414: key=lambda row: (row["player_name"] == "", row["player_name"], row["team_name"])
RowKeyLess(a, b) ==
    LET ea == IF a.player_name = EmptyName THEN 1 ELSE 0
        eb == IF b.player_name = EmptyName THEN 1 ELSE 0
    IN  \/ ea < eb
        \/ ea = eb /\ a.player_name < b.player_name
        \/ ea = eb /\ a.player_name = b.player_name /\ a.team_name < b.team_name

RECURSIVE InsertRow(_, _)
InsertRow(sorted, row) ==
    IF sorted = <<>> THEN <<row>>
    ELSE IF RowKeyLess(row, Head(sorted))
      THEN <<row>> \o sorted
      ELSE <<Head(sorted)>> \o InsertRow(Tail(sorted), row)

\* 412-415: sorted(cleaned_game_data, key=...): a stable sort.
RECURSIVE SortRows(_)
SortRows(rows) ==
    IF rows = <<>> THEN <<>>
    ELSE InsertRow(SortRows(SubSeq(rows, 1, Len(rows) - 1)), rows[Len(rows)])

\* 405-410: the checks after the player loop; None when all pass.
ValValidationError_no_count_check(count, added) ==
    IF ~added["Blue"] THEN "ValueError: Failed to create a team row for Blue team"
    ELSE IF ~added["Red"] THEN "ValueError: Failed to create a team row for Red team"
    ELSE None

ValValidationError(count, added) ==
    IF count < MinPlayers THEN "ValueError: Found fewer than 10 non-Neutral players"
    ELSE IF ~added["Blue"] THEN "ValueError: Failed to create a team row for Blue team"
    ELSE IF ~added["Red"] THEN "ValueError: Failed to create a team row for Red team"
    ELSE None

\* 220-229: the metadata team a raw team stands for; None when game_factory
\* raises instead.
ResolveTeam_else_two(team, meta) ==
    IF team.roundsWon = meta.team_one.rounds_won THEN "team_one" ELSE "team_two"

ResolveTeam(team, meta) ==
    IF team.roundsWon = meta.team_one.rounds_won THEN "team_one"
    ELSE IF team.roundsWon = meta.team_two.rounds_won THEN "team_two"
    ELSE None

\* ---- the steps of game_factory and of the loop that calls it

\* What the steps of one game_factory call may change besides gfpc.
valLocals == <<cleaned_game_data, player_idx, this_game_metadata, team_side_refs,
               team_idx, round_idx, attackers, round_results, team_preaggregated_stats,
               player_preaggregated_stats, player_count_found, team_rows_added_map>>

\* An exception raised in game_factory: main calls it outside any try block
\* (504), so the exception leaves main as well.
ValRaise(exc) ==
    /\ gfpc' = "raised"
    /\ gf_error' = exc
    /\ mainpc' = "crashed"
    /\ main_error' = Error(exc, "game_factory")
    /\ UNCHANGED <<valLocals, series_data, raw_game_data, output_array>>

ValNoRaise == UNCHANGED <<gf_error, mainpc, main_error>>

\* 500-504: the loop takes the next game of series_data and calls game_factory.
ValStartGame(g) ==
    /\ mainpc = "for_game"
    /\ gfpc = "idle"
    /\ Len(series_data) < MaxGames
    /\ raw_game_data' = [g EXCEPT !.matchId = Len(series_data) + 1]
    /\ series_data' = Append(series_data, raw_game_data')
    /\ gfpc' = "match"
    /\ ValNoRaise
    /\ UNCHANGED <<valLocals, output_array>>

\* 500, 509: series_data is exhausted.
ValGamesDone ==
    /\ mainpc = "for_game"
    /\ gfpc = "idle"
    /\ mainpc' = "for_series"
    /\ UNCHANGED <<gfpc, gf_error, main_error, valLocals, series_data, raw_game_data,
                   output_array>>

\* 203-212: the first entry of series_metadata["games"] with the game's map name.
ValMatch ==
    /\ gfpc = "match"
    /\ LET games == series_metadata.games
           found == {k \in 1..Len(games) : games[k].map_name = raw_game_data.map_name}
       IN  IF found = {}
             THEN ValRaise("ValueError: Unable to match game to metadata")
             ELSE /\ this_game_metadata' =
                        games[CHOOSE k \in found : \A j \in found : k <= j]
                  /\ team_side_refs' = [side \in Sides |-> None]
                  /\ team_idx' = 0
                  /\ gfpc' = "teams"
                  /\ ValNoRaise
                  /\ UNCHANGED <<cleaned_game_data, player_idx, round_idx, attackers, round_results,
                                 team_preaggregated_stats, player_preaggregated_stats,
                                 player_count_found, team_rows_added_map,
                                 series_data, raw_game_data, output_array>>

\* 219-230: one raw team resolved to team_one or team_two by its roundsWon.
ValTeam ==
    /\ gfpc = "teams"
    /\ team_idx < Len(raw_game_data.teams)
    /\ LET team == raw_game_data.teams[team_idx + 1]
           ref == ResolveTeam(team, this_game_metadata)
       IN  IF ref = None
             THEN ValRaise("ValueError: Failed to map team onto a team from the GRID metadata")
             ELSE /\ team_side_refs' = [team_side_refs EXCEPT ![team.teamId] = ref]
                  /\ team_idx' = team_idx + 1
                  /\ ValNoRaise
                  /\ UNCHANGED <<gfpc, cleaned_game_data, player_idx, this_game_metadata,
                                 round_idx, attackers, round_results, team_preaggregated_stats,
                                 player_preaggregated_stats, player_count_found,
                                 team_rows_added_map, series_data, raw_game_data,
                                 output_array>>

\* 232-247: the team loop is over; the pre-aggregation tables are created.
ValTeamsDone ==
    /\ gfpc = "teams"
    /\ team_idx >= Len(raw_game_data.teams)
    /\ gfpc' = "rounds"
    /\ round_idx' = 0
    /\ attackers' = None
    /\ round_results' = <<>>
    /\ team_preaggregated_stats' = [side \in Sides |-> ZeroSideStats]
    /\ player_preaggregated_stats' = [q \in {} |-> ZeroPlayerStats]
    /\ ValNoRaise
    /\ UNCHANGED <<cleaned_game_data, player_idx, this_game_metadata, team_side_refs,
                   team_idx, player_count_found, team_rows_added_map, series_data,
                   raw_game_data, output_array>>

\* 249-301: one round of raw_game_data["roundResults"].  The rounds are drawn
\* one by one; the list ends where ValRoundsDone says so.
ValRound(round_data) ==
    /\ gfpc = "rounds"
    /\ LET round_number == round_idx + 1
           pps == AddAllPlayerStats(player_preaggregated_stats, round_data.playerStats)
           sorted_kills == SortKills(RoundKillEvents(round_data.playerStats))
       IN  IF sorted_kills = <<>>
             THEN ValRaise("IndexError: list index out of range")
           ELSE IF sorted_kills[1].killer \notin DOMAIN pps
                   \/ sorted_kills[1].victim \notin DOMAIN pps
             THEN ValRaise("KeyError: puuid")
           ELSE /\ team_preaggregated_stats' =
                      CountRound(team_preaggregated_stats, round_number,
                                 round_data.winningTeam)
                /\ player_preaggregated_stats' =
                      LET k == [pps EXCEPT ![sorted_kills[1].killer].first_kills = @ + 1]
                      IN  [k EXCEPT ![sorted_kills[1].victim].first_deaths = @ + 1]
                /\ round_idx' = round_idx + 1
                /\ attackers' = Attackers(round_number)
                /\ round_results' = Append(round_results, round_data)
                /\ ValNoRaise
                /\ UNCHANGED <<gfpc, cleaned_game_data, player_idx, this_game_metadata,
                               team_side_refs, team_idx, player_count_found,
                               team_rows_added_map, series_data, raw_game_data,
                               output_array>>

\* 303-311: the round loop is over; the output tables are created.
ValRoundsDone ==
    /\ gfpc = "rounds"
    /\ gfpc' = "players"
    /\ cleaned_game_data' = <<>>
    /\ team_rows_added_map' = [side \in Sides |-> FALSE]
    /\ player_count_found' = 0
    /\ player_idx' = 0
    /\ ValNoRaise
    /\ UNCHANGED <<this_game_metadata, team_side_refs, team_idx, round_idx, attackers,
                   round_results,
                   team_preaggregated_stats, player_preaggregated_stats, series_data,
                   raw_game_data, output_array>>

\* 312-403: one player of raw_game_data["players"]: a Neutral player is
\* skipped; any other adds a player row and, first of its side, a team row.
\* this_game_metadata[None] (the side was resolved to no team) and
\* player_preaggregated_stats[puuid] (the player is in no round) raise
\* KeyError; a player without a recorded shot divides by zero (353-361).
ValPlayer ==
    /\ gfpc = "players"
    /\ player_idx < Len(raw_game_data.players)
    /\ LET player == raw_game_data.players[player_idx + 1]
           pps == player_preaggregated_stats
       IN  IF player.teamId = "Neutral"
             THEN /\ player_idx' = player_idx + 1
                  /\ ValNoRaise
                  /\ UNCHANGED <<gfpc, cleaned_game_data, this_game_metadata,
                                 team_side_refs, team_idx, round_idx, attackers, round_results,
                                 team_preaggregated_stats, player_preaggregated_stats,
                                 player_count_found, team_rows_added_map, series_data,
                                 raw_game_data, output_array>>
           ELSE IF team_side_refs[player.teamId] = None
             THEN ValRaise("KeyError: None")
           ELSE IF player.puuid \notin DOMAIN pps
             THEN ValRaise("KeyError: puuid")
           ELSE IF pps[player.puuid].headshots + pps[player.puuid].bodyshots
                        + pps[player.puuid].legshots = 0
             THEN ValRaise("ZeroDivisionError")
           ELSE /\ player_count_found' = player_count_found + 1
                /\ cleaned_game_data' =
                      cleaned_game_data
                      \o <<ValPlayerRow(raw_game_data, this_game_metadata, team_side_refs,
                                        team_preaggregated_stats, pps, player)>>
                      \o (IF team_rows_added_map[player.teamId] THEN <<>>
                          ELSE <<ValTeamRow(raw_game_data, this_game_metadata,
                                            team_side_refs, team_preaggregated_stats,
                                            player)>>)
                /\ team_rows_added_map' = [team_rows_added_map EXCEPT ![player.teamId] = TRUE]
                /\ player_idx' = player_idx + 1
                /\ ValNoRaise
                /\ UNCHANGED <<gfpc, this_game_metadata, team_side_refs, team_idx,
                               round_idx, attackers, round_results, team_preaggregated_stats,
                               player_preaggregated_stats, series_data, raw_game_data,
                               output_array>>

\* 405-417: the checks after the player loop, then the sorted rows are returned.
ValFinish ==
    /\ gfpc = "players"
    /\ player_idx >= Len(raw_game_data.players)
    /\ LET err == ValValidationError(player_count_found, team_rows_added_map)
       IN  IF err # None
             THEN ValRaise(err)
             ELSE /\ gfpc' = "returned"
                  /\ cleaned_game_data' = SortRows(cleaned_game_data)
                  /\ ValNoRaise
                  /\ UNCHANGED <<player_idx, this_game_metadata, team_side_refs, team_idx,
                                 round_idx, attackers, round_results, team_preaggregated_stats,
                                 player_preaggregated_stats, player_count_found,
                                 team_rows_added_map, series_data, raw_game_data,
                                 output_array>>

\* 504-507: `output_array.extend(cleaned_game_data)`, back to the loop head.
ValReturn ==
    /\ gfpc = "returned"
    /\ output_array' = output_array \o cleaned_game_data
    /\ gfpc' = "idle"
    /\ ValNoRaise
    /\ UNCHANGED <<valLocals, series_data, raw_game_data>>

\* ---- the games the Valorant specification draws

MapNames == {"Ascent", "Bind"}

\* The end-state metadata of the series: one game, played on Ascent, won 13:7
\* by team_one.
ValSeriesMetadata ==
    [series_id |-> 1, tournament_id |-> 1, tournament_name |-> 1,
     games |-> << [map_name |-> "Ascent", game_number |-> 1,
                   team_one |-> [id |-> 101, name |-> 2, winner |-> TRUE, rounds_won |-> 13],
                   team_two |-> [id |-> 102, name |-> 1, winner |-> FALSE, rounds_won |-> 7]] >>]

RawTeam(side, won) == [teamId |-> side, roundsWon |-> won]

\* raw_game_data["teams"]: both sides with the metadata's totals either way
\* round, a total the metadata does not know, the same total twice, one team only.
TeamLists ==
    { <<RawTeam("Blue", 13), RawTeam("Red", 7)>>,
      <<RawTeam("Blue", 7), RawTeam("Red", 13)>>,
      <<RawTeam("Blue", 13), RawTeam("Red", 5)>>,
      <<RawTeam("Blue", 13), RawTeam("Red", 13)>>,
      <<RawTeam("Blue", 13)>> }

\* <<Blue players, Red players, Neutral players>>: no player at all,
\* MinPlayers all on one side, and one short of, exactly, and one more than
\* MinPlayers over both sides, the first two also with a Neutral player.
PlayerShapes ==
    LET h == MinPlayers \div 2
    IN  { <<0, 0, 0>>, <<MinPlayers, 0, 0>>, <<0, MinPlayers, 0>>,
          <<h, MinPlayers - h - 1, 0>>, <<h, MinPlayers - h - 1, 1>>,
          <<h, MinPlayers - h, 0>>, <<h, MinPlayers - h, 1>>,
          <<h + 1, MinPlayers - h, 0>> }

\* raw_game_data["players"]: the Neutral players, then Blue, then Red; the
\* puuid is the position, the names fall in string order along the list.
PlayersOf(sh) ==
    LET total == sh[1] + sh[2] + sh[3]
    IN  [k \in 1..total |->
            [puuid |-> k,
             gameName |-> total + 1 - k,
             teamId |-> IF k <= sh[3] THEN "Neutral"
                        ELSE IF k <= sh[3] + sh[1] THEN "Blue" ELSE "Red"]]

ValGame(map, teams, sh) ==
    [matchId |-> 0, map_name |-> map, teams |-> teams, players |-> PlayersOf(sh)]

\* The game the metadata describes: Blue won 13:7, five players a side.
PlainTeams == <<RawTeam("Blue", 13), RawTeam("Red", 7)>>
PlainShape == <<MinPlayers \div 2, MinPlayers - (MinPlayers \div 2), 0>>

\* That game with another map, or other teams, or other players.
ValGames ==
    {ValGame(m, PlainTeams, PlainShape) : m \in MapNames}
      \cup {ValGame("Ascent", t, PlainShape) : t \in TeamLists}
      \cup {ValGame("Ascent", PlainTeams, sh) : sh \in PlayerShapes}

\* A round in which every non-Neutral player of the game has one damage entry
\* and the first of them kills the last.
PlainRound(raw) ==
    LET active == SelectSeq(raw.players, LAMBDA pl : pl.teamId # "Neutral")
    IN  [winningTeam |-> "Blue",
         playerStats |->
            [k \in 1..Len(active) |->
                [puuid |-> active[k].puuid,
                 damage |-> << [damage |-> 100, headshots |-> 1,
                                bodyshots |-> 2, legshots |-> 0] >>,
                 kills |-> IF k = 1
                             THEN << [timeSinceRoundStartMillis |-> 5000,
                                      killer |-> active[1].puuid,
                                      victim |-> active[Len(active)].puuid] >>
                             ELSE <<>>]]]

ValFrame == UNCHANGED <<title, splitVars, getVars, series_idx, games_total, game_idx, files, csv,
                        history, lolVars, series_metadata>>

NextValPlayers ==
    \/ (\E g \in ValGames : ValStartGame(g)) /\ ValFrame
    \/ ValGamesDone /\ ValFrame
    \/ ValMatch /\ ValFrame
    \/ ValTeam /\ ValFrame
    \/ ValTeamsDone /\ ValFrame
    \/ (round_idx < FewRounds /\ ValRound(PlainRound(raw_game_data))) /\ ValFrame
    \/ ValRoundsDone /\ ValFrame
    \/ ValPlayer /\ ValFrame
    \/ ValFinish /\ ValFrame
    \/ ValReturn /\ ValFrame

\* ---- the games and rounds the round-loop specifications draw

\* Bound: the largest number of rounds of a game whose winners are drawn.
MaxRounds == 26

\* Bound: the largest number of kill events of a game whose kills are drawn.
MaxKills == 3

\* A game of two Blue players and one Red player.
SmallGame == ValGame("Ascent", PlainTeams, <<2, 1, 0>>)

\* winningTeam of a round; None stands for any value that is neither side.
Winners == {"Blue", "Red", None}

\* The winners of a game come in at most three runs, in one of these orders.
WinnerOrders ==
    { <<"Blue", "Red", "Blue">>, <<"Red", "Blue", "Red">>,
      <<"Blue", None, "Red">>, <<"Red", None, "Blue">> }

\* The values of a sequence without their immediate repetitions.
RECURSIVE Runs(_)
Runs(q) ==
    IF Len(q) <= 1 THEN q
    ELSE IF q[1] = q[2] THEN Runs(Tail(q)) ELSE <<q[1]>> \o Runs(Tail(q))

IsPrefix(a, b) == Len(a) <= Len(b) /\ a = SubSeq(b, 1, Len(a))

\* The winners the next round may have after the rounds read so far.
NextWinners(results) ==
    { w \in Winners :
        \E o \in WinnerOrders :
           IsPrefix(Runs([k \in 1..Len(results) |-> results[k].winningTeam] \o <<w>>), o) }

\* The plain round of a game, won by w.
RoundWonBy(raw, w) == [PlainRound(raw) EXCEPT !.winningTeam = w]

\* The number of kill events of the rounds read so far.
KillCount(results) ==
    SeqSum([k \in 1..Len(results) |-> Len(RoundKillEvents(results[k].playerStats))])

\* Kill events: early or late in the round, by a player of the game
\* (listed under the killer) on another player.
KillTimes == {1000, 2000}

KillChoices(raw) ==
    { [timeSinceRoundStartMillis |-> t, killer |-> a, victim |-> b] :
        t \in KillTimes,
        a \in 1..Len(raw.players), b \in 1..Len(raw.players) }

\* A round of the game with the given kill events, each listed under its
\* killer in the order given.
RoundWithKills(raw, kills) ==
    [winningTeam |-> "Blue",
     playerStats |->
        [k \in 1..Len(raw.players) |->
            [puuid |-> raw.players[k].puuid,
             damage |-> << [damage |-> 100, headshots |-> 1,
                            bodyshots |-> 2, legshots |-> 0] >>,
             kills |-> SelectSeq(kills, LAMBDA e : e.killer = raw.players[k].puuid)]]]

\* The rounds that may follow those read so far: at most MaxKills kill
\* events in the game, none of a player on themself.
NextKillRounds(raw, results) ==
    { RoundWithKills(raw, kills) :
        kills \in UNION { [1..n -> {e \in KillChoices(raw) : e.killer # e.victim}] :
                            n \in 0..(MaxKills - KillCount(results)) } }

\* game_factory up to the end of the round loop, the winners drawn widely.
NextValRounds ==
    \/ ValStartGame(SmallGame) /\ ValFrame
    \/ ValMatch /\ ValFrame
    \/ ValTeam /\ ValFrame
    \/ ValTeamsDone /\ ValFrame
    \/ (/\ gfpc = "rounds"
        /\ round_idx < MaxRounds
        /\ \E w \in NextWinners(round_results) :
              ValRound(RoundWonBy(raw_game_data, w))) /\ ValFrame
    \/ ValRoundsDone /\ ValFrame

\* game_factory up to the end of the round loop, the kill events drawn widely.
NextValKills ==
    \/ ValStartGame(SmallGame) /\ ValFrame
    \/ ValMatch /\ ValFrame
    \/ ValTeam /\ ValFrame
    \/ ValTeamsDone /\ ValFrame
    \/ (/\ gfpc = "rounds"
        /\ \E r \in NextKillRounds(raw_game_data, round_results) : ValRound(r)) /\ ValFrame
    \/ ValRoundsDone /\ ValFrame

\* Bound: the largest number of rounds of a game whose first kills are drawn.
MaxCredits == 3

\* A puuid that no player of the game has.
UnknownPuuid == Len(SmallGame.players) + 1

\* A kill event of the game.
KillEvent(t, a, b) == [timeSinceRoundStartMillis |-> t, killer |-> a, victim |-> b]

\* A round whose playerStats holds one entry only, of the player `lister`.
RoundListing(lister, kills) ==
    [winningTeam |-> "Blue",
     playerStats |-> << [puuid |-> lister,
                         damage |-> << [damage |-> 100, headshots |-> 1,
                                        bodyshots |-> 2, legshots |-> 0] >>,
                         kills |-> kills] >>]

\* The rounds a game may have: no kill at all; one kill of a player on
\* another, every player listed, or only the killer, or (the first player's
\* kills) only the victim; two kills of the first player, every player
\* listed, one of them on a puuid of no player, early or late.
FirstKillRounds(raw) ==
    LET ids == 1..Len(raw.players)
        pairs == {p \in ids \X ids : p[1] # p[2]}
    IN  {RoundWithKills(raw, <<>>)}
          \cup {RoundWithKills(raw, <<KillEvent(1000, p[1], p[2])>>) : p \in pairs}
          \cup {RoundListing(p[1], <<KillEvent(1000, p[1], p[2])>>) : p \in pairs}
          \cup {RoundListing(b, <<KillEvent(1000, 1, b)>>) : b \in ids \ {1}}
          \cup {RoundWithKills(raw, <<KillEvent(t, 1, UnknownPuuid),
                                      KillEvent(3000 - t, 1, b)>>) :
                   t \in KillTimes, b \in ids \ {1}}

\* game_factory up to the end of the round loop, the first kills drawn widely.
NextValFirstKills ==
    \/ ValStartGame(SmallGame) /\ ValFrame
    \/ ValMatch /\ ValFrame
    \/ ValTeam /\ ValFrame
    \/ ValTeamsDone /\ ValFrame
    \/ (/\ gfpc = "rounds"
        /\ round_idx < MaxCredits
        /\ \E r \in FirstKillRounds(raw_game_data) : ValRound(r)) /\ ValFrame
    \/ ValRoundsDone /\ ValFrame

(***************************************************************************)
(* The LoL game_factory (lol_basic_parser.py 216-380).                     *)
(*                                                                         *)
(* A quotient of Python's `/` is kept as the pair of its operands; rows    *)
(* carry the columns the properties read.  The games drawn have a positive *)
(* gameDuration and damage, so the per-minute and share columns (left out) *)
(* do not raise.                                                           *)
(***************************************************************************)

\* `if frame["timestamp"] > 850000`
FirstBloodCutoff == 850000

\* first_blood_victim = None (participant ids are positive)
NoVictim == -1

\* Bound: the largest number of events of a timeline, over all its frames.
MaxEvents == 3

\* Bound: the largest number of participants of a generated stats file.
MaxParticipants == 2

\* Bound: the largest deaths counter of a participant.
MaxStat == 2

\* The kills and the assists of a generated participant.
FewKills == {0, 1}

LolSides == {100, 200}

\* Python's a / b: the quotient, or ZeroDivisionError.
ZeroDivision == [num |-> 0, den |-> 0]
Divide(a, b) == IF b = 0 THEN ZeroDivision ELSE [num |-> a, den |-> b]

ZeroTeamTotals == [kills |-> 0, deaths |-> 0, turret_plates |-> 0]

\* ---- the timeline scan (256-277)

\* 262-277: one event of a frame, applied to
\* [plates, found, victim] = turret_plates per team, first_blood_found,
\* first_blood_victim.
ScanEvent_overwriting(st, event) ==
    LET afterPlate ==
            IF event.type = "TURRET_PLATE_DESTROYED" /\ event.teamId \in {100, 200}
              THEN [st EXCEPT !.plates[IF event.teamId = 200 THEN 100 ELSE 200] = @ + 1]
              ELSE st
    IN  IF event.type = "CHAMPION_KILL" /\ event.killerId # 0
          THEN [afterPlate EXCEPT !.found = TRUE, !.victim = event.victimId]
          ELSE afterPlate

ScanEvent_same_team(st, event) ==
    LET afterPlate ==
            IF event.type = "TURRET_PLATE_DESTROYED" /\ event.teamId \in {100, 200}
              THEN [st EXCEPT !.plates[event.teamId] = @ + 1]
              ELSE st
    IN  IF event.type = "CHAMPION_KILL" /\ ~st.found /\ event.killerId # 0
          THEN [afterPlate EXCEPT !.found = TRUE, !.victim = event.victimId]
          ELSE afterPlate

ScanEvent(st, event) ==
    LET afterPlate ==
            IF event.type = "TURRET_PLATE_DESTROYED"
              THEN IF event.teamId = 200
                     THEN [st EXCEPT !.plates[100] = @ + 1]
                   ELSE IF event.teamId = 100
                     THEN [st EXCEPT !.plates[200] = @ + 1]
                   ELSE st
              ELSE st
    IN  IF event.type = "CHAMPION_KILL"
          THEN IF st.found THEN afterPlate
               ELSE IF event.killerId # 0
                 THEN [afterPlate EXCEPT !.found = TRUE, !.victim = event.victimId]
               ELSE afterPlate
          ELSE afterPlate

\* 261: `for event in frame["events"]`
RECURSIVE ScanEvents(_, _)
ScanEvents(st, events) ==
    IF events = <<>> THEN st ELSE ScanEvents(ScanEvent(st, Head(events)), Tail(events))

\* ---- totals and rows (279-378)

\* 279-287: team_totals after the first loop over the participants.
RECURSIVE AddParticipants(_, _)
AddParticipants(totals, participants) ==
    IF participants = <<>> THEN totals
    ELSE LET pl == Head(participants)
         IN  AddParticipants(
                 [totals EXCEPT ![pl.teamId].kills = @ + pl.kills,
                                ![pl.teamId].deaths = @ + pl.deaths],
                 Tail(participants))

\* 306: (kills + assists) / (deaths if deaths > 0 else 1)
Kda_unguarded(player) == Divide(player.kills + player.assists, player.deaths)

Kda(player) ==
    Divide(player.kills + player.assists,
           IF player.deaths > 0 THEN player.deaths ELSE 1)

\* 307: (kills + assists) / team_totals[teamId]["kills"]
KillParticipation_guarded(player, totals) ==
    Divide(player.kills + player.assists,
           IF totals[player.teamId].kills > 0 THEN totals[player.teamId].kills ELSE 1)

KillParticipation(player, totals) ==
    Divide(player.kills + player.assists, totals[player.teamId].kills)

\* 312: 1 if player["participantId"] == first_blood_victim else 0
FirstBloodFlag_once_found(player, victim) == IF victim # NoVictim THEN 1 ELSE 0

FirstBloodFlag(player, victim) == IF player.participantId = victim THEN 1 ELSE 0

\* 292-322: player_dto.
LolPlayerRow(player, totals, victim) ==
    [side |-> player.teamId,
     kills |-> player.kills,
     deaths |-> player.deaths,
     assists |-> player.assists,
     kda |-> Kda(player),
     kill_participation |-> KillParticipation(player, totals),
     team_kills |-> totals[player.teamId].kills,
     team_deaths |-> totals[player.teamId].deaths,
     firstBloodVictim |-> FirstBloodFlag(player, victim)]

\* 338-364: team_dto.
LolTeamRow(team, totals) ==
    [side |-> team.teamId,
     teamKills |-> team.championKills,
     teamDeaths |-> totals[team.teamId].deaths,
     turretPlates |-> totals[team.teamId].turret_plates]

\* ---- the steps of game_factory

lolLocals == <<cleaned_game_data, player_idx, team_idx, frame_idx, first_blood_found,
               first_blood_victim, team_totals>>

\* 258-277: the next frame of timeline_file["frames"]: the scan ends at a
\* frame beyond the cutoff, otherwise the frame's events are applied.  The
\* frames are drawn one by one; timeline_file holds those read so far.
LolFrame(frame) ==
    /\ gfpc = "timeline"
    /\ timeline_file' = [frames |-> Append(timeline_file.frames, frame)]
    /\ frame_idx' = frame_idx + 1
    /\ IF frame.timestamp > FirstBloodCutoff
         THEN /\ gfpc' = "totals"
              /\ UNCHANGED <<first_blood_found, first_blood_victim, team_totals>>
         ELSE LET st == ScanEvents([plates |-> [t \in LolSides |-> team_totals[t].turret_plates],
                                    found |-> first_blood_found,
                                    victim |-> first_blood_victim],
                                   frame.events)
              IN  /\ team_totals' = [t \in LolSides |->
                                        [team_totals[t] EXCEPT !.turret_plates = st.plates[t]]]
                  /\ first_blood_found' = st.found
                  /\ first_blood_victim' = st.victim
                  /\ UNCHANGED gfpc
    /\ UNCHANGED <<cleaned_game_data, player_idx, team_idx, gf_error, stats_file>>

\* 258: timeline_file["frames"] is exhausted.
LolTimelineDone ==
    /\ gfpc = "timeline"
    /\ gfpc' = "totals"
    /\ UNCHANGED <<lolLocals, gf_error, stats_file, timeline_file>>

\* 279-287: the first loop over stats_file["participants"].
LolTotals ==
    /\ gfpc = "totals"
    /\ team_totals' = AddParticipants(team_totals, stats_file.participants)
    /\ gfpc' = "players"
    /\ player_idx' = 0
    /\ UNCHANGED <<cleaned_game_data, team_idx, frame_idx, first_blood_found,
                   first_blood_victim, gf_error, stats_file, timeline_file>>

\* 289-324: one participant's row; the two quotients are evaluated in the
\* order of the dict literal and a zero divisor raises ZeroDivisionError.
LolPlayer ==
    /\ gfpc = "players"
    /\ player_idx < Len(stats_file.participants)
    /\ LET player == stats_file.participants[player_idx + 1]
       IN  IF Kda(player) = ZeroDivision
             THEN /\ gfpc' = "raised"
                  /\ gf_error' = "ZeroDivisionError: kda"
                  /\ UNCHANGED <<cleaned_game_data, player_idx>>
           ELSE IF KillParticipation(player, team_totals) = ZeroDivision
             THEN /\ gfpc' = "raised"
                  /\ gf_error' = "ZeroDivisionError: kill_participation"
                  /\ UNCHANGED <<cleaned_game_data, player_idx>>
           ELSE /\ cleaned_game_data' =
                      Append(cleaned_game_data,
                             LolPlayerRow(player, team_totals, first_blood_victim))
                /\ player_idx' = player_idx + 1
                /\ UNCHANGED <<gfpc, gf_error>>
    /\ UNCHANGED <<team_idx, frame_idx, first_blood_found, first_blood_victim,
                   team_totals, stats_file, timeline_file>>

\* 326: the participant loop is over.
LolPlayersDone ==
    /\ gfpc = "players"
    /\ player_idx >= Len(stats_file.participants)
    /\ gfpc' = "teams"
    /\ team_idx' = 0
    /\ UNCHANGED <<cleaned_game_data, player_idx, frame_idx, first_blood_found,
                   first_blood_victim, team_totals, gf_error, stats_file, timeline_file>>

\* 326-378: one team's row.
LolTeam ==
    /\ gfpc = "teams"
    /\ team_idx < Len(stats_file.teams)
    /\ cleaned_game_data' =
          Append(cleaned_game_data, LolTeamRow(stats_file.teams[team_idx + 1], team_totals))
    /\ team_idx' = team_idx + 1
    /\ UNCHANGED <<gfpc, player_idx, frame_idx, first_blood_found, first_blood_victim,
                   team_totals, gf_error, stats_file, timeline_file>>

\* 380: return cleaned_game_data
LolReturn ==
    /\ gfpc = "teams"
    /\ team_idx >= Len(stats_file.teams)
    /\ gfpc' = "returned"
    /\ UNCHANGED <<lolLocals, gf_error, stats_file, timeline_file>>

\* ---- the games the LoL specifications draw

Kill(killer, victim) ==
    [type |-> "CHAMPION_KILL", killerId |-> killer, victimId |-> victim, teamId |-> 0,
     timestamp |-> 0]
Plate(team) ==
    [type |-> "TURRET_PLATE_DESTROYED", killerId |-> 0, victimId |-> 0, teamId |-> team,
     timestamp |-> 0]
\* The events of one frame all bear the frame's timestamp.
Stamped(events, ts) == [k \in 1..Len(events) |-> [events[k] EXCEPT !.timestamp = ts]]

\* Kills by no champion (killerId 0) and by a champion, of two victims; plates
\* of either team and of a team id that is neither.
Events ==
    {Kill(0, 1), Kill(3, 1), Kill(3, 2), Plate(100), Plate(200), Plate(300)}

\* Frame timestamps: early, at the cutoff, just beyond it.
FrameTimes == {60000, FirstBloodCutoff, FirstBloodCutoff + 1}

EventCount(frames) == SeqSum([k \in 1..Len(frames) |-> Len(frames[k].events)])

\* The frames that may follow those read so far: a timeline is chronological,
\* each frame later than the one before, and holds at most MaxEvents events.
NextFrames(frames) ==
    { [timestamp |-> ts, events |-> Stamped(ev, ts)] :
        ts \in {t \in FrameTimes :
                  frames = <<>> \/ t > frames[Len(frames)].timestamp},
        ev \in UNION {[1..n -> Events] : n \in 0..(MaxEvents - EventCount(frames))} }

\* One frame with the first blood of participant 2 and a plate of each team.
PlainFrames ==
    { [timestamp |-> 60000,
       events |-> Stamped(<<Plate(100), Kill(3, 2), Plate(200)>>, 60000)] }

Participant(id, team, k, d, a) ==
    [participantId |-> id, teamId |-> team, kills |-> k, deaths |-> d, assists |-> a]

TeamKills(participants, team) ==
    SeqSum([k \in 1..Len(participants) |->
              IF participants[k].teamId = team THEN participants[k].kills ELSE 0])

\* stats_file: the participants, and the two teams with the kills the vendor
\* reports for them: the sum of their participants' kills, plus `extra` for
\* the first team.
StatsFileReporting(participants, extra) ==
    [participants |-> participants,
     teams |-> [k \in 1..2 |->
                  [teamId |-> k * 100,
                   championKills |-> TeamKills(participants, k * 100)
                                        + (IF k = 1 THEN extra ELSE 0)]]]

StatsFile(participants) == StatsFileReporting(participants, 0)

\* Participants 1..n with every combination of side, kills, deaths, assists;
\* the first team's reported kills agree with them or exceed them by one.
WideStats ==
    { StatsFileReporting(
          [k \in 1..Len(c) |-> Participant(k, c[k][1], c[k][2], c[k][3], c[k][4])], extra) :
        extra \in {0, 1},
        c \in UNION { [1..n -> LolSides \X FewKills \X (0..MaxStat) \X FewKills] :
                        n \in 0..MaxParticipants } }

\* A game of two participants, one per side, and the same without the second.
PlainStats ==
    { StatsFile(<<Participant(1, 100, 2, 1, 0), Participant(2, 200, 1, 2, 1)>>),
      StatsFile(<<Participant(1, 100, 2, 1, 0)>>) }

\* team_idx is the position of the team loop in both scripts.
LolFrame_ ==
    UNCHANGED <<title, splitVars, getVars, mainVars, output_array, series_metadata,
                series_data,
                raw_game_data, this_game_metadata, team_side_refs, round_idx, attackers,
                round_results,
                team_preaggregated_stats, player_preaggregated_stats,
                player_count_found, team_rows_added_map>>

NextLolTimeline ==
    \/ (\E f \in NextFrames(timeline_file.frames) : LolFrame(f)) /\ LolFrame_
    \/ LolTimelineDone /\ LolFrame_
    \/ LolTotals /\ LolFrame_
    \/ LolPlayer /\ LolFrame_
    \/ LolPlayersDone /\ LolFrame_
    \/ LolTeam /\ LolFrame_
    \/ LolReturn /\ LolFrame_

\* ---- main of the LoL script after game_factory: the rows and the CSV file

\* 68-108
FIELD_LIST ==
    << "platform_game_id", "tournament_id", "tournament_name",
       "summoner_name", "team_tag", "side", "auto_detect_role", "champion",
       "win", "game_duration", "kills", "deaths", "assists", "kda",
       "kill_participation", "team_kills", "team_deaths", "firstBloodKill",
       "firstBloodAssist", "firstBloodVictim", "damagePerMinute",
       "damageShare", "wardsPlacedPerMinute", "wardsClearedPerMinute",
       "controlWardsPurchased", "creepScore", "creepScorePerMinute",
       "goldEarned", "goldEarnedPerMinute", "firstTurret", "turretKills",
       "turretPlates", "firstDragon", "dragonKills", "firstHerald",
       "riftHeraldKills", "baronKills", "inhibitorKills", "bans" >>

\* row.get(field): the value, or None, which csv.writer writes as an empty cell.
NoValue == [empty |-> TRUE, value |-> None]
Cell(row, field) ==
    IF field \in DOMAIN row THEN [empty |-> FALSE, value |-> row[field]] ELSE NoValue

\* 469-474: the header row, then one row of cells per row of output_array.
CsvFile(rows) ==
    <<FIELD_LIST>> \o
       [i \in 1..Len(rows) |-> [k \in 1..Len(FIELD_LIST) |-> Cell(rows[i], FIELD_LIST[k])]]

\* 458: output_array.extend(cleaned_game_data); the loops of main end here.
LolExtend ==
    /\ title = "lol"
    /\ gfpc = "returned"
    /\ mainpc = "idle"
    /\ output_array' = output_array \o cleaned_game_data
    /\ mainpc' = "write"
    /\ UNCHANGED <<gfVars, csv>>

\* 465-474: the CSV file is written.
LolWriteCsv ==
    /\ title = "lol"
    /\ mainpc = "write"
    /\ csv' = CsvFile(output_array)
    /\ mainpc' = "done"
    /\ UNCHANGED <<gfVars, output_array>>

LolMainFrame ==
    UNCHANGED <<title, splitVars, getVars, series_idx, games_total, game_idx, files,
                main_error, history, lolVars, valVars>>

NextLolStats ==
    \/ (\E f \in PlainFrames : timeline_file.frames = <<>> /\ LolFrame(f)) /\ LolFrame_
    \/ LolTimelineDone /\ LolFrame_
    \/ LolTotals /\ LolFrame_
    \/ LolPlayer /\ LolFrame_
    \/ LolPlayersDone /\ LolFrame_
    \/ LolTeam /\ LolFrame_
    \/ LolReturn /\ LolFrame_
    \/ LolExtend /\ LolMainFrame
    \/ LolWriteCsv /\ LolMainFrame

(***************************************************************************)
(* split_team_tag_and_player_nickname (lol_basic_parser.py 195-213).       *)
(* A string is the sequence of its characters.                             *)
(***************************************************************************)

\* Bound: the longest summoner name drawn.
MaxLen == 6

\* `summoner_name.find(" ") < 5`
TagLimit == 5

\* An upper-case letter, a lower-case letter, the space, an uncased character.
UpperChars == {"A"}
LowerChars == {"b"}
Chars == UpperChars \cup LowerChars \cup {" ", "7"}

\* Python's None in place of a tag, and a tag.
NoTag == [none |-> TRUE, text |-> <<>>]
Tag(text) == [none |-> FALSE, text |-> text]

\* str.find: the 0-based index of the first occurrence, or -1.
Find(str, ch) ==
    IF \E i \in 1..Len(str) : str[i] = ch
      THEN (CHOOSE i \in 1..Len(str) :
               str[i] = ch /\ \A j \in 1..(i - 1) : str[j] # ch) - 1
      ELSE 0 - 1

\* str.split(" ")[0]: the text before the first space, or all of it.
SplitHead(str) ==
    IF Find(str, " ") = 0 - 1 THEN str ELSE SubSeq(str, 1, Find(str, " "))

\* str.isupper(): some cased character, and no lower-case one.
IsUpper_no_lower(str) == \A i \in 1..Len(str) : str[i] \notin LowerChars

IsUpper(str) ==
    /\ \E i \in 1..Len(str) : str[i] \in UpperChars
    /\ \A i \in 1..Len(str) : str[i] \notin LowerChars

\* 198-200: the function is entered with a name.
SplitCall(name) ==
    /\ splitpc = "idle"
    /\ splitpc' = "called"
    /\ summoner_name' = name
    /\ team_tag_found' = FALSE
    /\ team_tag' = NoTag
    /\ player_name' = name

\* 202-213: the body, to the return.
SplitReturn ==
    /\ splitpc = "called"
    /\ splitpc' = "returned"
    /\ IF /\ Find(summoner_name, " ") # 0 - 1
          /\ Find(summoner_name, " ") < TagLimit
          /\ IsUpper(SplitHead(summoner_name))
         THEN /\ team_tag_found' = TRUE
              /\ team_tag' = Tag(SplitHead(summoner_name))
              /\ player_name' = SubSeq(summoner_name, Find(summoner_name, " ") + 2,
                                       Len(summoner_name))
         ELSE UNCHANGED <<team_tag_found, team_tag, player_name>>
    /\ UNCHANGED summoner_name

Names == UNION {[1..n -> Chars] : n \in 0..MaxLen}

SplitFrame == UNCHANGED <<title, getVars, mainVars, output_array, gfVars, lolVars, valVars>>

NextSplit ==
    \/ (splitpc = "idle" /\ \E name \in Names : SplitCall(name)) /\ SplitFrame
    \/ SplitReturn /\ SplitFrame

IdleSplit ==
    /\ splitpc = "idle"
    /\ summoner_name = <<>>
    /\ team_tag_found = FALSE
    /\ team_tag = NoTag
    /\ player_name = <<>>

(***************************************************************************)
(* Initial values of the parts a specification does not run.               *)
(***************************************************************************)
IdleMain ==
    /\ mainpc = "idle"
    /\ series_idx = 0
    /\ games_total = 0
    /\ game_idx = 0
    /\ files = <<>>
    /\ csv = NotWritten
    /\ main_error = NoError
    /\ history = <<>>

IdleGf ==
    /\ gfpc = "idle"
    /\ cleaned_game_data = <<>>
    /\ gf_error = None
    /\ player_idx = 0

IdleLol ==
    /\ stats_file = None
    /\ timeline_file = None
    /\ frame_idx = 0
    /\ first_blood_found = FALSE
    /\ first_blood_victim = 0
    /\ team_totals = None

IdleValLocals ==
    /\ series_data = <<>>
    /\ raw_game_data = None
    /\ this_game_metadata = None
    /\ team_side_refs = None
    /\ team_idx = 0
    /\ round_idx = 0
    /\ attackers = None
    /\ round_results = <<>>
    /\ team_preaggregated_stats = None
    /\ player_preaggregated_stats = None
    /\ player_count_found = 0
    /\ team_rows_added_map = None

IdleVal == series_metadata = None /\ IdleValLocals

InitGetCall ==
    /\ title \in {"lol", "val"}
    /\ InitGet
    /\ IdleSplit
    /\ IdleMain /\ output_array = <<>> /\ IdleGf /\ IdleLol /\ IdleVal

SpecGet == InitGetCall /\ [][NextGet]_vars

InitMainRun ==
    /\ title \in {"lol", "val"}
    /\ InitGet
    /\ IdleSplit
    /\ InitMain /\ output_array = <<>> /\ IdleGf /\ IdleLol /\ IdleVal

SpecMain == InitMainRun /\ [][NextMain]_vars

\* main of the Valorant script stands at the head of the game loop of a
\* series (500), the series metadata resolved, no row produced yet.
InitValLoop ==
    /\ title = "val"
    /\ InitGet
    /\ IdleSplit
    /\ mainpc = "for_game"
    /\ series_idx = 1
    /\ games_total = 0
    /\ game_idx = 0
    /\ files = <<>>
    /\ csv = NotWritten
    /\ main_error = NoError
    /\ history = <<>>
    /\ output_array = <<>>
    /\ series_metadata = ValSeriesMetadata
    /\ IdleGf /\ IdleLol /\ IdleValLocals

SpecValPlayers == InitValLoop /\ [][NextValPlayers]_vars

InitSplit ==
    /\ title = "lol"
    /\ InitGet
    /\ IdleSplit
    /\ IdleMain /\ output_array = <<>> /\ IdleGf /\ IdleLol /\ IdleVal

SpecSplit == InitSplit /\ [][NextSplit]_vars

SpecValRounds == InitValLoop /\ [][NextValRounds]_vars

SpecValFirstKills == InitValLoop /\ [][NextValFirstKills]_vars

SpecValKills == InitValLoop /\ [][NextValKills]_vars

\* game_factory of the LoL script is entered (229-257) with stats file sf.
InitLol(sf) ==
    /\ title = "lol"
    /\ InitGet
    /\ IdleSplit
    /\ IdleMain /\ output_array = <<>> /\ IdleVal
    /\ gfpc = "timeline"
    /\ cleaned_game_data = <<>>
    /\ gf_error = None
    /\ player_idx = 0
    /\ stats_file = sf
    /\ timeline_file = [frames |-> <<>>]
    /\ frame_idx = 0
    /\ first_blood_found = FALSE
    /\ first_blood_victim = NoVictim
    /\ team_totals = [t \in LolSides |-> ZeroTeamTotals]

InitLolTimeline == \E sf \in PlainStats : InitLol(sf)

SpecLolTimeline == InitLolTimeline /\ [][NextLolTimeline]_vars

InitLolStats == \E sf \in WideStats : InitLol(sf)

SpecLolStats == InitLolStats /\ [][NextLolStats]_vars

(***************************************************************************)
(* Properties of API_Messenger.get.                                        *)
(***************************************************************************)

\* The step is one requests.get of the retry loop.
IsRequest == requests' = requests + 1

\* The conditions the retry loop is written for: a timeout, a 429, or a
\* status other than 200 / 401 / 403 / 404.
Retryable(o) ==
    \/ o.kind = "timeout"
    \/ o.kind = "response" /\ o.status \notin {200, 401, 403, 404}

\* C1 (as stated): at most five requests per call; every timeout, 429 or
\* status other than 200/401/403/404 adds exactly one to try_count; the
\* "failed too many times" exception is raised after five such outcomes
\* without a sixth request; a 200 returns the content.
C1_BoundedRetry ==
    [][ /\ requests' <= 5
        /\ (IsRequest /\ Retryable(outcome')) => try_count' = try_count + 1
        /\ (getpc = "loop" /\ result' = Raised(TooManyTimes))
              => (try_count = 5 /\ requests' = requests /\ requests = 5)
        /\ (IsRequest /\ outcome'.kind = "response" /\ outcome'.status = 200)
              => (getpc' = "returned" /\ result' = Content)
      ]_vars

\* The part of C1 that holds of the code: the same, for every retryable
\* outcome except a 429 whose Retry-After header int() cannot read.
GetBoundedRetry ==
    [][ /\ requests' <= 5
        /\ (/\ IsRequest
            /\ Retryable(outcome')
            /\ ~(outcome'.status = 429 /\ outcome'.retry_after.form # "seconds"))
              => try_count' = try_count + 1
        /\ (getpc = "loop" /\ result' = Raised(TooManyTimes))
              => (try_count = 5 /\ requests' = requests /\ requests = 5)
        /\ (IsRequest /\ outcome'.kind = "response" /\ outcome'.status = 200)
              => (getpc' = "returned" /\ result' = Content)
      ]_vars

\* C2: a 401, 403 or 404 response makes get return that status code at once:
\* no exception, no further request, no sleep, try_count unchanged, whatever
\* number of retryable failures came before.
C2_SentinelReturnedAtOnce ==
    [][ (IsRequest /\ outcome'.kind = "response" /\ outcome'.status \in {401, 403, 404})
          => /\ getpc' = "returned"
             /\ result' = StatusCode(outcome'.status)
             /\ try_count' = try_count
             /\ sleeps' = sleeps
      ]_vars

\* A 404 returned on the fifth attempt, after four retryable failures of
\* which at least one slept.
C2_Witness ==
    /\ getpc = "returned"
    /\ result = StatusCode(404)
    /\ try_count = 4
    /\ requests = 5
    /\ Len(sleeps) >= 1

(***************************************************************************)
(* Properties of main.                                                     *)
(***************************************************************************)

MainEnded == mainpc \in {"done", "crashed"}

\* Every series of SERIES_IDS_TO_PULL was taken up by the series loop.
EverySeriesVisited == \A s \in 1..NumSeries : history[s] # "pending"

\* C3 (as stated): an api.get that gives up after five attempts during a file
\* download abandons only its series or game: main does not end there, every
\* later series is processed and the CSV is written.
C3_ExhaustedGetAbandonsOnlyItsUnit ==
    /\ ~(mainpc = "crashed" /\ main_error = Error(TooManyTimes, "api.get"))
    /\ (MainEnded /\ \E s \in 1..NumSeries : history[s] = "get_failed")
          => (EverySeriesVisited /\ csv = output_array)

\* C4 (as stated): a data-shape error raised while flattening a game aborts the
\* current series only: main goes on with the remaining series and their rows
\* are written to the CSV.
C4_FlattenErrorAbandonsOnlyItsSeries ==
    main_error.at = "game_factory"
        => /\ mainpc # "crashed"
           /\ MainEnded => (EverySeriesVisited /\ csv = output_array)

(***************************************************************************)
(* Valorant game_factory: validation and the rows of a game.               *)
(***************************************************************************)

NonNeutralCount(game) ==
    Cardinality({k \in 1..Len(game.players) : game.players[k].teamId # "Neutral"})

HasPlayerOf(game, side) ==
    \E k \in 1..Len(game.players) : game.players[k].teamId = side

\* The four validations of a game, read off the game as it was received.
PassesValidation(game) ==
    /\ \E k \in 1..Len(series_metadata.games) :
          series_metadata.games[k].map_name = game.map_name
    /\ \A k \in 1..Len(game.teams) :
          \E m \in 1..Len(series_metadata.games) :
             /\ series_metadata.games[m].map_name = game.map_name
             /\ game.teams[k].roundsWon \in
                   {series_metadata.games[m].team_one.rounds_won,
                    series_metadata.games[m].team_two.rounds_won}
    /\ NonNeutralCount(game) >= 10
    /\ HasPlayerOf(game, "Blue")
    /\ HasPlayerOf(game, "Red")

\* C5: a game that fails validation contributes zero rows.  Every row of
\* output_array belongs to a game that passes the four validations, and while
\* game_factory has raised for a game, output_array holds no row of that game,
\* whatever rows cleaned_game_data had already collected.
C5_FailedGameContributesNoRows ==
    /\ \A i \in 1..Len(output_array) :
          /\ output_array[i].game_id \in 1..Len(series_data)
          /\ PassesValidation(series_data[output_array[i].game_id])
    /\ gfpc = "raised" =>
          \A i \in 1..Len(output_array) : output_array[i].game_id # raw_game_data.matchId

\* game_factory raised on the player count after building rows of the game,
\* and output_array still holds exactly the rows of the game before.
C5_Witness ==
    /\ gfpc = "raised"
    /\ gf_error = "ValueError: Found fewer than 10 non-Neutral players"
    /\ Len(cleaned_game_data) > 0
    /\ Len(output_array) > 0
    /\ \A i \in 1..Len(output_array) : output_array[i].game_id # raw_game_data.matchId

\* C6: game_factory returns rows only for a game with exactly two teams and
\* exactly ten non-spectator players, and then returns exactly 12 rows.
C6_ReturnsExactlyTwelveRows ==
    (title = "val" /\ gfpc = "returned") =>
        /\ Len(raw_game_data.teams) = 2
        /\ NonNeutralCount(raw_game_data) = 10
        /\ Len(cleaned_game_data) = 12

(***************************************************************************)
(* LoL game_factory: first blood, turret plates, kda.                      *)
(***************************************************************************)

\* The events of the frames whose timestamp does not exceed the cutoff, in
\* list order.
EventsUpToCutoff(frames) ==
    Flatten([k \in 1..Len(frames) |->
               IF frames[k].timestamp <= 850000 THEN frames[k].events ELSE <<>>])

IsValidKill(event) == event.type = "CHAMPION_KILL" /\ event.killerId # 0

ValidKills(frames) == SelectSeq(EventsUpToCutoff(frames), IsValidKill)

FirstBloodVictimOf(frames) ==
    IF ValidKills(frames) = <<>> THEN NoVictim ELSE ValidKills(frames)[1].victimId

PlayerRowIndexes ==
    {i \in 1..Len(cleaned_game_data) : i <= Len(stats_file.participants)}

FlaggedRows == {i \in PlayerRowIndexes : cleaned_game_data[i].firstBloodVictim = 1}

\* C8 as stated: for every game flattened, exactly one player row has
\* firstBloodVictim = 1, the row of the victim of the earliest valid kill at
\* or before the cutoff, and all other player rows have 0.
C8_ExactlyOneFirstBloodVictim ==
    (title = "lol" /\ gfpc = "returned") =>
        /\ Cardinality(FlaggedRows) = 1
        /\ \A i \in PlayerRowIndexes :
              cleaned_game_data[i].firstBloodVictim =
                 IF stats_file.participants[i].participantId =
                       FirstBloodVictimOf(timeline_file.frames)
                   THEN 1 ELSE 0

\* C8, amended: a player row has firstBloodVictim = 1 exactly when its
\* participantId is the victimId of the first valid kill in the frames up to
\* the cutoff, and 0 otherwise; so at most one row has the flag, exactly one
\* when such a kill exists and its victim is a participant, and none when no
\* valid kill lies in those frames.
C8_FirstBloodFlagFollowsVictim ==
    (title = "lol") =>
        /\ \A i \in PlayerRowIndexes :
              cleaned_game_data[i].firstBloodVictim =
                 IF /\ ValidKills(timeline_file.frames) # <<>>
                    /\ stats_file.participants[i].participantId =
                          ValidKills(timeline_file.frames)[1].victimId
                   THEN 1 ELSE 0
        /\ Cardinality(FlaggedRows) <= 1
        /\ gfpc = "returned" =>
              (Cardinality(FlaggedRows) = 1 <=>
                  /\ ValidKills(timeline_file.frames) # <<>>
                  /\ \E i \in 1..Len(stats_file.participants) :
                        stats_file.participants[i].participantId =
                           ValidKills(timeline_file.frames)[1].victimId)

\* A flattened game of two participants whose first valid kill has the second
\* participant as victim: that row alone carries the flag.
C8_Witness ==
    /\ title = "lol"
    /\ gfpc = "returned"
    /\ Len(stats_file.participants) = 2
    /\ ValidKills(timeline_file.frames) # <<>>
    /\ ValidKills(timeline_file.frames)[1].victimId = stats_file.participants[2].participantId
    /\ FlaggedRows = {2}

\* The plate events, among the given events, tagged with a team id.
PlatesTagged(events, teamId) ==
    Len(SelectSeq(events, LAMBDA e : e.type = "TURRET_PLATE_DESTROYED" /\ e.teamId = teamId))

AllEvents(frames) == Flatten([k \in 1..Len(frames) |-> frames[k].events])

OtherSide(teamId) == IF teamId = 100 THEN 200 ELSE 100

TeamRowIndexes ==
    {i \in 1..Len(cleaned_game_data) : i > Len(stats_file.participants)}

\* C9 as stated: each team row's turretPlates equals the number of
\* plate-destruction events of the game tagged with the other team's id.
C9_PlatesOfTheGame ==
    (title = "lol" /\ gfpc = "returned") =>
        \A i \in TeamRowIndexes :
           cleaned_game_data[i].turretPlates =
              PlatesTagged(AllEvents(timeline_file.frames),
                           OtherSide(cleaned_game_data[i].side))

\* C9, amended: every TURRET_PLATE_DESTROYED event in a frame up to the
\* cutoff credits the opposing team (teamId 100 adds one to team 200's
\* turret_plates, teamId 200 adds one to team 100's, any other teamId adds
\* nothing), and no other event changes turret_plates; so each team row's
\* turretPlates equals the number of plate events tagged with the other
\* team's id in the frames up to the cutoff.
C9_PlatesCreditOpposingTeam ==
    (title = "lol") =>
        /\ \A t \in LolSides :
              team_totals[t].turret_plates =
                 PlatesTagged(EventsUpToCutoff(timeline_file.frames), OtherSide(t))
        /\ \A i \in TeamRowIndexes :
              cleaned_game_data[i].turretPlates =
                 PlatesTagged(EventsUpToCutoff(timeline_file.frames),
                              OtherSide(cleaned_game_data[i].side))

\* A flattened game with a plate tagged 100 and a plate tagged with neither
\* team before the cutoff and a plate tagged 200 beyond it: team 200's row
\* has one plate, team 100's none.
C9_Witness ==
    /\ title = "lol"
    /\ gfpc = "returned"
    /\ PlatesTagged(EventsUpToCutoff(timeline_file.frames), 100) = 1
    /\ PlatesTagged(EventsUpToCutoff(timeline_file.frames), 200) = 0
    /\ PlatesTagged(EventsUpToCutoff(timeline_file.frames), 300) = 1
    /\ PlatesTagged(AllEvents(timeline_file.frames), 200) = 1
    /\ \E i \in TeamRowIndexes :
          cleaned_game_data[i].side = 200 /\ cleaned_game_data[i].turretPlates = 1
    /\ \E i \in TeamRowIndexes :
          cleaned_game_data[i].side = 100 /\ cleaned_game_data[i].turretPlates = 0

\* C10: in every player row kda is (kills + assists) / deaths when deaths > 0
\* and kills + assists when deaths = 0, and computing it never raises a
\* division error.  (A quotient n/d equals a/b iff d, b # 0 and n*b = a*d.)
C10_KdaGuardsZeroDeaths ==
    (title = "lol") =>
        /\ gf_error # "ZeroDivisionError: kda"
        /\ \A i \in PlayerRowIndexes :
              LET player == stats_file.participants[i]
                  kda == cleaned_game_data[i].kda
              IN  /\ kda.den # 0
                  /\ IF player.deaths > 0
                       THEN kda.num * player.deaths =
                               (player.kills + player.assists) * kda.den
                       ELSE kda.num = (player.kills + player.assists) * kda.den

\* A flattened game with a row of a player who never died and a row of a
\* player who died twice, both with kills or assists.
C10_Witness ==
    /\ title = "lol"
    /\ gfpc = "returned"
    /\ \E i \in PlayerRowIndexes :
          /\ stats_file.participants[i].deaths = 0
          /\ stats_file.participants[i].kills + stats_file.participants[i].assists > 0
    /\ \E i \in PlayerRowIndexes :
          /\ stats_file.participants[i].deaths = 2
          /\ stats_file.participants[i].kills + stats_file.participants[i].assists = 1

\* The sum of a raw counter over the participants of a side.
RawKills(side) ==
    SeqSum([k \in 1..Len(stats_file.participants) |->
              IF stats_file.participants[k].teamId = side
                THEN stats_file.participants[k].kills ELSE 0])

RawDeaths(side) ==
    SeqSum([k \in 1..Len(stats_file.participants) |->
              IF stats_file.participants[k].teamId = side
                THEN stats_file.participants[k].deaths ELSE 0])

\* C11: in every player row kill_participation is (kills + assists) divided
\* by the sum of kills of the participants of the same teamId; when that sum
\* is zero game_factory raises a division error and returns no rows, also for
\* a player whose deaths guard succeeded.
C11_KillParticipationUnguarded ==
    (title = "lol") =>
        /\ \A i \in PlayerRowIndexes :
              LET player == stats_file.participants[i]
                  kp == cleaned_game_data[i].kill_participation
              IN  /\ kp.den # 0
                  /\ RawKills(player.teamId) # 0
                  /\ kp.num * RawKills(player.teamId) =
                        (player.kills + player.assists) * kp.den
        /\ gf_error = "ZeroDivisionError: kill_participation" =>
              /\ gfpc = "raised"
              /\ RawKills(stats_file.participants[player_idx + 1].teamId) = 0
        /\ (\E k \in 1..Len(stats_file.participants) :
               RawKills(stats_file.participants[k].teamId) = 0) =>
              gfpc \notin {"teams", "returned"} /\ output_array = <<>>

\* game_factory raised on the kill participation of a player who never died
\* (kda was computed with the guard) after building another player's row.
C11_Witness ==
    /\ title = "lol"
    /\ gfpc = "raised"
    /\ gf_error = "ZeroDivisionError: kill_participation"
    /\ Len(cleaned_game_data) = 1
    /\ stats_file.participants[player_idx + 1].deaths = 0
    /\ stats_file.participants[player_idx + 1].assists = 1

\* C12: for each side, team_kills / team_deaths of each player row of the
\* side and the kill / death totals of the side's team row all equal the sum
\* of kills / deaths over the raw participants of the side.
C12_TotalsMatchRawCounters ==
    (title = "lol") =>
        /\ \A i \in PlayerRowIndexes :
              /\ cleaned_game_data[i].team_kills = RawKills(cleaned_game_data[i].side)
              /\ cleaned_game_data[i].team_deaths = RawDeaths(cleaned_game_data[i].side)
        /\ \A i \in TeamRowIndexes :
              /\ cleaned_game_data[i].teamKills = RawKills(cleaned_game_data[i].side)
              /\ cleaned_game_data[i].teamDeaths = RawDeaths(cleaned_game_data[i].side)

(***************************************************************************)
(* Valorant game_factory: the round loop and the team resolution.          *)
(***************************************************************************)

\* The attacking side of round n as the rule states it.
RotatingSide(n) ==
    IF n \in 1..12 THEN "Red"
    ELSE IF n \in 13..24 THEN "Blue"
    ELSE IF n % 2 = 1 THEN "Red" ELSE "Blue"

\* C13: the attacking side of round n depends on n alone: Red for 1..12, Blue
\* for 13..24, and from 25 on Red when n is odd and Blue when n is even; so
\* rounds 1 and 13 differ, and so do rounds n and n + 1 for every n >= 25.
C13_AttackersRotate ==
    (title = "val" /\ round_idx >= 1) =>
        /\ attackers = RotatingSide(round_idx)
        /\ \A n \in 1..round_idx : Attackers(n) = RotatingSide(n)
        /\ round_idx >= 13 => Attackers(1) # Attackers(13)
        /\ \A n \in 25..(round_idx - 1) : Attackers(n) # Attackers(n + 1)

\* Round 26 was processed, whoever won the rounds before: Blue attacked,
\* and Red attacked round 25.
C13_Witness ==
    /\ title = "val"
    /\ gfpc = "rounds"
    /\ round_idx = 26
    /\ attackers = "Blue"
    /\ Attackers(25) = "Red"
    /\ \E k \in 1..25 : round_results[k].winningTeam # round_results[26].winningTeam

\* All kill events of a round: player order in playerStats, then kill order.
KillsOfRound(round_data) ==
    Flatten([k \in 1..Len(round_data.playerStats) |-> round_data.playerStats[k].kills])

\* The kill event of a round with the smallest time, the first of them in
\* list order when several share it.
FirstKillOfRound(round_data) ==
    LET ev == KillsOfRound(round_data)
        i == CHOOSE i \in 1..Len(ev) :
                \A j \in 1..Len(ev) :
                   \/ ev[i].timeSinceRoundStartMillis < ev[j].timeSinceRoundStartMillis
                   \/ /\ ev[i].timeSinceRoundStartMillis = ev[j].timeSinceRoundStartMillis
                      /\ i <= j
    IN  ev[i]

\* C14: for every round the first-kill credit goes to the killer and the
\* first-death credit to the victim of the kill event with the smallest
\* timeSinceRoundStartMillis, the first encountered when several share it;
\* nothing else is credited: after any number of rounds each player's
\* first_kills / first_deaths is the number of rounds whose first kill has
\* that player as killer / victim.
C14_FirstKillCredit ==
    (title = "val" /\ gfpc \in {"rounds", "players"}) =>
        \A p \in DOMAIN player_preaggregated_stats :
           /\ player_preaggregated_stats[p].first_kills =
                 Cardinality({r \in 1..Len(round_results) :
                                 FirstKillOfRound(round_results[r]).killer = p})
           /\ player_preaggregated_stats[p].first_deaths =
                 Cardinality({r \in 1..Len(round_results) :
                                 FirstKillOfRound(round_results[r]).victim = p})

\* One round was processed whose three kill events list a late kill first
\* and then two kills sharing the smallest time, of different victims: the
\* victim of the second event has the first death, the third's has none.
C14_Witness ==
    /\ title = "val"
    /\ gfpc = "rounds"
    /\ round_idx = 1
    /\ LET ev == KillsOfRound(round_results[1])
       IN  /\ Len(ev) = 3
           /\ ev[1].timeSinceRoundStartMillis > ev[2].timeSinceRoundStartMillis
           /\ ev[2].timeSinceRoundStartMillis = ev[3].timeSinceRoundStartMillis
           /\ ev[2].victim # ev[3].victim
           /\ ev[1].killer # ev[2].killer
           /\ player_preaggregated_stats[ev[2].victim].first_deaths = 1
           /\ player_preaggregated_stats[ev[3].victim].first_deaths = 0
           /\ player_preaggregated_stats[ev[2].killer].first_kills = 1
           /\ player_preaggregated_stats[ev[1].killer].first_kills = 0

\* The raw teams game_factory has resolved so far in the game at hand.
TeamsResolved ==
    IF gfpc \in {"rounds", "players", "returned"} THEN Len(raw_game_data.teams)
    ELSE IF gfpc = "teams" THEN team_idx
    ELSE 0

\* C15: each raw team is resolved to team_one when its roundsWon equals
\* team_one's rounds_won, otherwise to team_two when it equals team_two's; a
\* raw team whose roundsWon equals neither makes game_factory raise
\* ValueError, and the game yields no rows.
C15_TeamResolution ==
    (title = "val") =>
        /\ \A k \in 1..TeamsResolved :
              LET team == raw_game_data.teams[k]
              IN  \/ /\ team.roundsWon = this_game_metadata.team_one.rounds_won
                     /\ team_side_refs[team.teamId] = "team_one"
                  \/ /\ team.roundsWon # this_game_metadata.team_one.rounds_won
                     /\ team.roundsWon = this_game_metadata.team_two.rounds_won
                     /\ team_side_refs[team.teamId] = "team_two"
        /\ gf_error = "ValueError: Failed to map team onto a team from the GRID metadata" =>
              /\ gfpc = "raised"
              /\ raw_game_data.teams[team_idx + 1].roundsWon \notin
                    {this_game_metadata.team_one.rounds_won,
                     this_game_metadata.team_two.rounds_won}
              /\ \A i \in 1..Len(output_array) :
                    output_array[i].game_id # raw_game_data.matchId
        /\ (/\ gfpc \in {"teams", "rounds", "players", "returned"}
            /\ \E k \in 1..Len(raw_game_data.teams) :
                  raw_game_data.teams[k].roundsWon \notin
                     {this_game_metadata.team_one.rounds_won,
                      this_game_metadata.team_two.rounds_won})
              => gfpc = "teams"

\* The second game of a series: its Blue team was resolved to team_one, its
\* Red team matches neither total and game_factory raised; output_array
\* holds the rows of the first game only.
C15_Witness ==
    /\ title = "val"
    /\ gfpc = "raised"
    /\ gf_error = "ValueError: Failed to map team onto a team from the GRID metadata"
    /\ team_idx = 1
    /\ team_side_refs["Blue"] = "team_one"
    /\ raw_game_data.matchId = 2
    /\ Len(output_array) > 0

\* The rounds read so far that a side won.
RoundsWonBy(side) ==
    Cardinality({r \in 1..Len(round_results) : round_results[r].winningTeam = side})

SideTotal(st) == st.attackWins + st.attackLosses + st.defenseWins + st.defenseLosses

\* C20: after any prefix of k rounds each side's four counters sum to k;
\* each side's attack wins / losses are the other side's defense losses /
\* wins; and when every winningTeam is Blue or Red a side's attackWins +
\* defenseWins is the number of rounds it won.
C20_SideCounters ==
    (title = "val" /\ gfpc \in {"rounds", "players"}) =>
        LET blue == team_preaggregated_stats["Blue"]
            red == team_preaggregated_stats["Red"]
        IN  /\ round_idx = Len(round_results)
            /\ SideTotal(blue) = round_idx
            /\ SideTotal(red) = round_idx
            /\ blue.attackWins = red.defenseLosses
            /\ blue.attackLosses = red.defenseWins
            /\ red.attackWins = blue.defenseLosses
            /\ red.attackLosses = blue.defenseWins
            /\ (\A r \in 1..Len(round_results) :
                   round_results[r].winningTeam \in {"Blue", "Red"}) =>
                  /\ blue.attackWins + blue.defenseWins = RoundsWonBy("Blue")
                  /\ red.attackWins + red.defenseWins = RoundsWonBy("Red")

\* 26 rounds, each won by Blue or by Red, after which every one of the four
\* counters of both sides is positive.
C20_Witness ==
    /\ title = "val"
    /\ gfpc = "rounds"
    /\ round_idx = 26
    /\ \A r \in 1..26 : round_results[r].winningTeam \in {"Blue", "Red"}
    /\ \A side \in {"Blue", "Red"} :
          /\ team_preaggregated_stats[side].attackWins > 0
          /\ team_preaggregated_stats[side].attackLosses > 0
          /\ team_preaggregated_stats[side].defenseWins > 0
          /\ team_preaggregated_stats[side].defenseLosses > 0

(***************************************************************************)
(* split_team_tag_and_player_nickname.                                     *)
(***************************************************************************)

\* The input has a first space at a 0-based index below 5, and the text
\* before it is non-empty, has a cased character and no lower-case one.
HasTag(str) ==
    \E i \in 1..Len(str) :
       /\ str[i] = " "
       /\ \A j \in 1..(i - 1) : str[j] # " "
       /\ i - 1 < 5
       /\ i - 1 > 0
       /\ \E j \in 1..(i - 1) : str[j] \in UpperChars
       /\ \A j \in 1..(i - 1) : str[j] \notin LowerChars

\* C16: a tag is returned if and only if the input has a space whose first
\* occurrence is at index < 5 and the token before it is entirely upper-case;
\* then the tag is the text before the first space (at most 4 characters) and
\* tag + " " + name is the input; in every other case the tag is None and the
\* name is the whole input.
C16_SplitTag ==
    (splitpc = "returned") =>
        /\ team_tag.none = ~HasTag(summoner_name)
        /\ team_tag_found = HasTag(summoner_name)
        /\ HasTag(summoner_name) =>
              /\ team_tag.text \o <<" ">> \o player_name = summoner_name
              /\ Len(team_tag.text) \in 1..4
              /\ \A i \in 1..Len(team_tag.text) : team_tag.text[i] # " "
        /\ ~HasTag(summoner_name) => player_name = summoner_name

\* A tag of four characters, one of them uncased, was split off a name that
\* has a second space.
C16_Witness ==
    /\ splitpc = "returned"
    /\ ~team_tag.none
    /\ Len(team_tag.text) = 4
    /\ \E i \in 1..4 : team_tag.text[i] = "7"
    /\ player_name = <<" ">>

\* C18: each retry of get after a retryable condition (a timeout, a 429,
\* another status) is preceded by a back-off delay before the next request
\* is sent: the Retry-After number of seconds after a 429, the fixed delay
\* after the other retryable conditions.
C18_RetryAfterBackOff ==
    [][ (try_count' = try_count + 1) =>
           /\ Len(sleeps') = Len(sleeps) + 1
           /\ sleeps'[Len(sleeps')] =
                 IF outcome'.kind = "response" /\ outcome'.status = 429
                   THEN outcome'.retry_after.seconds
                   ELSE FixedDelay
      ]_vars

(***************************************************************************)
(* The order of the steps of main.                                         *)
(***************************************************************************)

RowsOfSeries(s) == {i \in 1..Len(output_array) : output_array[i].series = s}

GamesWithRows(s) == {output_array[i].game : i \in RowsOfSeries(s)}

RowsInOrder ==
    \A i, j \in 1..Len(output_array) :
       i < j =>
          \/ output_array[i].series < output_array[j].series
          \/ /\ output_array[i].series = output_array[j].series
             /\ output_array[i].game <= output_array[j].game

C19_State ==
    /\ RowsInOrder
    /\ \A s \in 1..NumSeries :
          /\ s > series_idx => RowsOfSeries(s) = {}
          /\ history[s] = "post_failed" => RowsOfSeries(s) = {}
          /\ (history[s] = "post_failed" /\ s < NumSeries /\ history[s + 1] = "pending")
                => (mainpc = "for_series" /\ series_idx = s /\ main_error = NoError)
    /\ (mainpc \in {"get_files", "parse", "flatten"})
          => GamesWithRows(series_idx) = 1..(game_idx - 1)
    /\ (mainpc = "flatten" /\ title = "lol")
          => (Len(files) = 3 /\ \A i \in 1..3 : files[i] = Content)
    /\ (csv # NotWritten)
          => /\ mainpc = "done"
             /\ csv = output_array
             /\ series_idx = NumSeries
             /\ \A s \in 1..NumSeries : history[s] \notin {"pending", "started"}

C19_Step ==
    /\ (files' # files /\ files' # <<>>)
          => (mainpc = "get_files" /\ history[series_idx] = "started" /\ game_idx >= 1)
    /\ (output_array' # output_array)
          => /\ mainpc = "flatten"
             /\ mainpc' = "for_game"
             /\ Len(output_array') > Len(output_array)
             /\ \A i \in 1..Len(output_array') :
                   IF i <= Len(output_array)
                     THEN output_array'[i] = output_array[i]
                     ELSE /\ output_array'[i].series = series_idx
                          /\ output_array'[i].game = game_idx
    /\ (game_idx' = game_idx + 1)
          => GamesWithRows(series_idx) = 1..game_idx
    /\ (mainpc' = "get_endstate") => mainpc = "post"
    /\ (mainpc' = "get_riot") => mainpc = "get_endstate"
    /\ (mainpc' = "get_files") => mainpc \in {"for_game", "get_files"}
    /\ (mainpc' = "for_game" /\ game_idx' = 0) => mainpc \in {"post", "get_riot"}
    /\ (csv' # csv)
          => /\ csv = NotWritten
             /\ mainpc = "write"
             /\ series_idx = NumSeries
             /\ csv' = output_array
    /\ (mainpc = "post" /\ mainpc' = "for_series")
          => /\ output_array' = output_array
             /\ main_error' = main_error
             /\ series_idx' = series_idx

ColumnNames == {FIELD_LIST[k] : k \in 1..Len(FIELD_LIST)}

\* C17: every row mapping a flattener produces is keyed only by names of the
\* column list, so every value computed for a row is written to the CSV
\* under its column, and each data row has as many cells as the header.
C17_RowsKeyedByColumns ==
    (title = "lol") =>
        /\ \A i \in 1..Len(cleaned_game_data) : DOMAIN cleaned_game_data[i] \subseteq ColumnNames
        /\ csv # NotWritten =>
              \A i \in 1..Len(output_array) :
                 /\ Len(csv[i + 1]) = Len(csv[1])
                 /\ \A f \in DOMAIN output_array[i] :
                       \E k \in 1..Len(FIELD_LIST) :
                          /\ FIELD_LIST[k] = f
                          /\ ~csv[i + 1][k].empty

(***************************************************************************)
(* The first-kill and first-death credits of a Valorant game.              *)
(***************************************************************************)

\* The sum of one counter over all players of player_preaggregated_stats.
RECURSIVE CreditSum(_, _)
CreditSum(pps, field) ==
    IF DOMAIN pps = {} THEN 0
    ELSE LET p == CHOOSE p \in DOMAIN pps : TRUE
         IN  pps[p][field] + CreditSum([q \in DOMAIN pps \ {p} |-> pps[q]], field)

\* The puuids met in the playerStats of rounds 1..r.
SeenUpTo(r) ==
    UNION { {round_results[q].playerStats[k].puuid :
                k \in 1..Len(round_results[q].playerStats)} : q \in 1..r }

RoundErrors == {"IndexError: list index out of range", "KeyError: puuid"}

\* C21: after n rounds processed without error the first_kills of all
\* players sum to n and so do the first_deaths; every round processed has a
\* kill event, and the killer and victim of its earliest kill were met in
\* the playerStats of that round or an earlier one: a round without a kill,
\* or whose earliest kill names a puuid not met so far, makes game_factory
\* raise, and no row is produced.
C21_OneCreditPerRound ==
    (title = "val") =>
        /\ (gfpc \in {"rounds", "players"}) =>
              /\ round_idx = Len(round_results)
              /\ CreditSum(player_preaggregated_stats, "first_kills") = round_idx
              /\ CreditSum(player_preaggregated_stats, "first_deaths") = round_idx
              /\ \A r \in 1..Len(round_results) :
                    /\ KillsOfRound(round_results[r]) # <<>>
                    /\ FirstKillOfRound(round_results[r]).killer \in SeenUpTo(r)
                    /\ FirstKillOfRound(round_results[r]).victim \in SeenUpTo(r)
        /\ (gf_error \in RoundErrors) =>
              /\ gfpc = "raised"
              /\ cleaned_game_data = <<>>
              /\ output_array = <<>>

\* Three rounds were processed.  The second lists one player only, and the
\* victim of its kill was met in the first round alone; the third has a late
\* kill on a puuid of no player behind an early kill on a player.
C21_Witness ==
    /\ title = "val"
    /\ gfpc = "players"
    /\ Len(round_results) = 3
    /\ Len(round_results[1].playerStats) = 3
    /\ Len(round_results[2].playerStats) = 1
    /\ FirstKillOfRound(round_results[2]).victim # round_results[2].playerStats[1].puuid
    /\ Len(KillsOfRound(round_results[3])) = 2
    /\ KillsOfRound(round_results[3])[1].victim = UnknownPuuid
    /\ CreditSum(player_preaggregated_stats, "first_kills") = 3
    /\ UnknownPuuid \notin DOMAIN player_preaggregated_stats

(***************************************************************************)
(* The two sides of a Valorant game and the metadata teams.                *)
(***************************************************************************)

\* The team rows game_factory holds for the game at hand.
TeamRowsHeld == {i \in 1..Len(cleaned_game_data) : cleaned_game_data[i].player_name = EmptyName}

\* C22: whenever the team-identity resolution completes without raising, Blue
\* and Red are mapped to two different metadata teams, one to team_one and
\* the other to team_two, so the rows of the two sides never carry the same
\* team_id, team_name, win flag and roundsWon.
C22_SidesAreDifferentTeams ==
    (title = "val" /\ gfpc \in {"rounds", "players", "returned"}) =>
        /\ {team_side_refs["Blue"], team_side_refs["Red"]} = {"team_one", "team_two"}
        /\ \A i, j \in TeamRowsHeld :
              i # j =>
                 ~ /\ cleaned_game_data[i].team_id = cleaned_game_data[j].team_id
                   /\ cleaned_game_data[i].team_name = cleaned_game_data[j].team_name
                   /\ cleaned_game_data[i].win = cleaned_game_data[j].win
                   /\ cleaned_game_data[i].roundsWon = cleaned_game_data[j].roundsWon

====
